---- MODULE Spec2Model ----
(***************************************************************************)
(* A model of the analytical core of news_catcher: title normalisation,    *)
(* period bucketing, clustering, importance scoring and cluster            *)
(* summarisation (src/app/app.py), the extractive article summariser       *)
(* (src/summarizer.py), the coverage statistics (src/timeline.py) and the  *)
(* /search handler with its shared crawler (src/app.py,                    *)
(* src/news_crawler.py).                                                   *)
(*                                                                         *)
(* Representation.  A Python str is a sequence of one-character strings,   *)
(* so that lowercasing, regular-expression splitting, slicing and len()    *)
(* are computed character by character.  None is the value NoneVal.  A     *)
(* Python float is an exact rational [n, d] with d > 0 in lowest terms:    *)
(* the model does not reproduce binary floating-point rounding.  A         *)
(* datetime is a record [year, month, day, hour, minute]; the timestamps   *)
(* of the model lie on whole minutes.  An insertion-ordered dict is a      *)
(* sequence of [key, value] records in insertion order.                    *)
(***************************************************************************)
EXTENDS Integers, Sequences, FiniteSets, TLC

VARIABLES
  pc,               \* position of the operation in progress
  items,            \* key_events_by_period: the article list passed in
  granularity,      \* key_events_by_period: "daily" | "weekly" | "monthly"
  i,                \* index of the loop in progress
  buckets,          \* dict periodStart -> articles, in insertion order
  b,                \* index of the bucket being processed
  groups,           \* dict key -> cluster of the bucket being processed
  period_start_dt,  \* start of the bucket being processed
  period_end_dt,    \* end of the bucket being processed
  best_cluster,     \* best cluster found so far in the bucket
  best_score,       \* its score
  result,           \* the KeyEvent list
  arg,              \* the arguments of the pure function under call
  ret,              \* its return value
  crawler,          \* src/app.py: the NewsCrawler shared by all requests
  search_articles   \* src/app.py, search(): each request's list `articles`

vars == <<pc, items, granularity, i, buckets, b, groups, period_start_dt,
          period_end_dt, best_cluster, best_score, result, arg, ret, crawler,
          search_articles>>

(***************************************************************************)
(* Characters and strings                                                  *)
(***************************************************************************)
NoneVal == <<"None">>

UpperCase == <<"A","B","C","D","E","F","G","H","I","J","K","L","M",
               "N","O","P","Q","R","S","T","U","V","W","X","Y","Z">>

LowerCase == <<"a","b","c","d","e","f","g","h","i","j","k","l","m",
               "n","o","p","q","r","s","t","u","v","w","x","y","z">>

DigitChars == <<"0","1","2","3","4","5","6","7","8","9">>

Range(f) == {f[x] : x \in DOMAIN f}

Letters == Range(UpperCase) \cup Range(LowerCase)

Whitespace == {" ", "\t", "\n"}

SentenceEnd == {".", "!", "?"}

char_lower(c) ==
  IF c \in Range(UpperCase)
  THEN LowerCase[CHOOSE k \in 1..26 : UpperCase[k] = c]
  ELSE c

str_lower(s) == [k \in 1..Len(s) |-> char_lower(s[k])]

\* Python truthiness of an optional string: None and "" are falsy.
Truthy(s) == s # NoneVal /\ s # <<>>

\* x or y
OrElse(x, y) == IF Truthy(x) THEN x ELSE y

RECURSIVE lstrip(_)
lstrip(s) == IF s # <<>> /\ Head(s) \in Whitespace THEN lstrip(Tail(s)) ELSE s

RECURSIVE rstrip(_)
rstrip(s) ==
  IF s # <<>> /\ s[Len(s)] \in Whitespace
  THEN rstrip(SubSeq(s, 1, Len(s) - 1))
  ELSE s

strip(s) == lstrip(rstrip(s))

\* s[:n] for n >= 0
Prefix(s, n) == SubSeq(s, 1, IF n < Len(s) THEN n ELSE Len(s))

\* the maximal runs of the characters of s at the positions k with in_run[k], in order
Runs(s, in_run) ==
  LET idx        == [k \in 1..Len(s) |-> k]
      IsStart(k) == in_run[k] /\ (k = 1 \/ ~in_run[k - 1])
      IsEnd(k)   == in_run[k] /\ (k = Len(s) \/ ~in_run[k + 1])
      starts     == SelectSeq(idx, IsStart)
      ends       == SelectSeq(idx, IsEnd)
  IN  [j \in 1..Len(starts) |-> SubSeq(s, starts[j], ends[j])]

\* str.split(): the maximal runs of non-whitespace characters
split_ws(s) ==
  Runs(s, [k \in 1..Len(s) |-> s[k] \notin Whitespace])

\* sep.join(parts)
RECURSIVE join(_, _)
join(sep, parts) ==
  IF parts = <<>> THEN <<>>
  ELSE IF Len(parts) = 1 THEN parts[1]
  ELSE parts[1] \o sep \o join(sep, Tail(parts))

\* key in s, for strings
IsSubstring(key, s) ==
  \E k \in 0..(Len(s) - Len(key)) : SubSeq(s, k + 1, k + Len(key)) = key

(***************************************************************************)
(* Rationals standing for Python floats                                    *)
(***************************************************************************)
Abs(x) == IF x < 0 THEN -x ELSE x

RECURSIVE Gcd(_, _)
Gcd(x, y) == IF y = 0 THEN x ELSE Gcd(y, x % y)

Rat(n, d) ==
  LET g == Gcd(Abs(n), d) IN [n |-> n \div g, d |-> d \div g]

\* the sum and the product, over the least common denominator and with the
\* common factors cancelled first, so that the intermediate values stay small
RAdd(p, q) ==
  LET g == Gcd(p.d, q.d)
  IN  Rat(p.n * (q.d \div g) + q.n * (p.d \div g), (p.d \div g) * q.d)

RMul(p, q) ==
  LET g1 == Gcd(Abs(p.n), q.d)
      g2 == Gcd(Abs(q.n), p.d)
  IN  Rat((p.n \div g1) * (q.n \div g2), (p.d \div g2) * (q.d \div g1))

RDivInt(p, k) == Rat(p.n, p.d * k)

\* x/y < u/v for y, v > 0, by the continued-fraction expansion (no products)
RECURSIVE FracLess(_, _, _, _)
FracLess(x, y, u, v) ==
  LET qx == x \div y
      qu == u \div v
      rx == x % y
      ru == u % v
  IN  IF qx # qu THEN qx < qu
      ELSE IF ru = 0 THEN FALSE
      ELSE IF rx = 0 THEN TRUE
      ELSE FracLess(v, ru, y, rx)

RLess(p, q) == FracLess(p.n, p.d, q.n, q.d)

RLeq(p, q) == ~RLess(q, p)

RECURSIVE RSum(_)
RSum(s) == IF s = <<>> THEN Rat(0, 1) ELSE RAdd(Head(s), RSum(Tail(s)))

RECURSIVE SumSeq(_)
SumSeq(s) == IF s = <<>> THEN 0 ELSE Head(s) + SumSeq(Tail(s))

(***************************************************************************)
(* The static tables                                                       *)
(***************************************************************************)
STOPWORDS ==
  {
   <<"t","h","e">>, <<"a">>, <<"a","n">>, <<"a","n","d">>, <<"o","r">>,
   <<"b","u","t">>, <<"i","f">>, <<"t","h","e","n">>, <<"e","l","s","e">>, <<"f","o","r">>,
   <<"o","n">>, <<"i","n">>, <<"a","t">>, <<"t","o">>, <<"o","f">>,
   <<"b","y">>, <<"w","i","t","h">>, <<"f","r","o","m">>, <<"a","s">>, <<"i","s">>,
   <<"a","r","e">>, <<"w","a","s">>, <<"w","e","r","e">>, <<"b","e">>, <<"b","e","e","n">>,
   <<"b","e","i","n","g">>, <<"t","h","i","s">>, <<"t","h","a","t">>, <<"t","h","e","s","e">>, <<"t","h","o","s","e">>,
   <<"a","b","o","u","t">>, <<"o","v","e","r">>, <<"u","n","d","e","r">>, <<"a","f","t","e","r">>, <<"b","e","f","o","r","e">>,
   <<"i","n","t","o">>, <<"o","u","t">>, <<"u","p">>, <<"d","o","w","n">>, <<"o","f","f">>,
   <<"n","o","t">>, <<"n","o">>, <<"s","o">>, <<"i","t">>, <<"i","t","s">>,
   <<"i","t","'","s">>, <<"t","h","e","i","r">>, <<"h","i","s">>, <<"h","e","r">>, <<"h","i","m">>,
   <<"s","h","e">>, <<"h","e">>, <<"t","h","e","y">>, <<"t","h","e","m">>, <<"y","o","u">>,
   <<"y","o","u","r">>, <<"i">>, <<"w","e">>, <<"o","u","r">>, <<"u","s">> }

\* weights in tenths: 20 is 2.0, 15 is 1.5
SOURCE_AUTHORITY ==
  <<
   [key |-> <<"n","e","w"," ","y","o","r","k"," ","t","i","m","e","s">>, weight |-> 20],
   [key |-> <<"n","y","t">>, weight |-> 20],
   [key |-> <<"t","h","e"," ","n","e","w"," ","y","o","r","k"," ","t","i","m","e","s">>, weight |-> 20],
   [key |-> <<"b","b","c">>, weight |-> 20],
   [key |-> <<"b","b","c"," ","n","e","w","s">>, weight |-> 20],
   [key |-> <<"r","e","u","t","e","r","s">>, weight |-> 20],
   [key |-> <<"a","s","s","o","c","i","a","t","e","d"," ","p","r","e","s","s">>, weight |-> 20],
   [key |-> <<"a","p"," ","n","e","w","s">>, weight |-> 20],
   [key |-> <<"w","a","l","l"," ","s","t","r","e","e","t"," ","j","o","u","r","n","a","l">>, weight |-> 20],
   [key |-> <<"w","s","j">>, weight |-> 20],
   [key |-> <<"w","a","s","h","i","n","g","t","o","n"," ","p","o","s","t">>, weight |-> 20],
   [key |-> <<"w","a","p","o">>, weight |-> 20],
   [key |-> <<"t","h","e"," ","g","u","a","r","d","i","a","n">>, weight |-> 20],
   [key |-> <<"g","u","a","r","d","i","a","n">>, weight |-> 20],
   [key |-> <<"f","i","n","a","n","c","i","a","l"," ","t","i","m","e","s">>, weight |-> 20],
   [key |-> <<"f","t">>, weight |-> 20],
   [key |-> <<"c","n","n">>, weight |-> 15],
   [key |-> <<"c","n","n"," ","n","e","w","s">>, weight |-> 15],
   [key |-> <<"f","o","x"," ","n","e","w","s">>, weight |-> 15],
   [key |-> <<"n","b","c"," ","n","e","w","s">>, weight |-> 15],
   [key |-> <<"n","b","c">>, weight |-> 15],
   [key |-> <<"a","b","c"," ","n","e","w","s">>, weight |-> 15],
   [key |-> <<"a","b","c">>, weight |-> 15],
   [key |-> <<"c","b","s"," ","n","e","w","s">>, weight |-> 15],
   [key |-> <<"c","b","s">>, weight |-> 15],
   [key |-> <<"b","l","o","o","m","b","e","r","g">>, weight |-> 15],
   [key |-> <<"n","p","r">>, weight |-> 15],
   [key |-> <<"u","s","a"," ","t","o","d","a","y">>, weight |-> 15],
   [key |-> <<"t","h","e"," ","e","c","o","n","o","m","i","s","t">>, weight |-> 15],
   [key |-> <<"e","c","o","n","o","m","i","s","t">>, weight |-> 15] >>

stop_words ==
  {
   <<"a">>, <<"a","n">>, <<"a","n","d">>, <<"a","r","e">>, <<"a","s">>,
   <<"a","t">>, <<"b","e">>, <<"b","y">>, <<"f","o","r">>, <<"f","r","o","m">>,
   <<"h","a","s">>, <<"h","e">>, <<"i","n">>, <<"i","s">>, <<"i","t">>,
   <<"i","t","s">>, <<"o","f">>, <<"o","n">>, <<"t","h","a","t">>, <<"t","h","e">>,
   <<"t","o">>, <<"w","a","s">>, <<"w","i","l","l">>, <<"w","i","t","h">>, <<"s","a","i","d">>,
   <<"s","a","y","s">>, <<"c","a","n">>, <<"b","e","e","n">>, <<"h","a","v","e">>, <<"h","a","d">>,
   <<"h","a","s">>, <<"t","h","i","s">>, <<"b","u","t">>, <<"t","h","e","i","r">>, <<"w","h","i","c","h">>,
   <<"t","h","e","y">>, <<"w","o","u","l","d">>, <<"t","h","e","r","e">> }

(***************************************************************************)
(* datetime, timedelta, strftime and strptime                              *)
(***************************************************************************)
IsLeap(y) == y % 4 = 0 /\ (y % 100 # 0 \/ y % 400 = 0)

DAYS_IN_MONTH == <<31, 28, 31, 30, 31, 30, 31, 31, 30, 31, 30, 31>>

DaysInMonth(y, m) == IF m = 2 /\ IsLeap(y) THEN 29 ELSE DAYS_IN_MONTH[m]

DaysBeforeYear(y) ==
  (y - 1) * 365 + (y - 1) \div 4 - (y - 1) \div 100 + (y - 1) \div 400

RECURSIVE DaysBeforeMonth(_, _)
DaysBeforeMonth(y, m) ==
  IF m = 1 THEN 0 ELSE DaysBeforeMonth(y, m - 1) + DaysInMonth(y, m - 1)

\* date.toordinal(): 1 is 0001-01-01, a Monday
toordinal(d) == DaysBeforeYear(d.year) + DaysBeforeMonth(d.year, d.month) + d.day

\* date.weekday(): Monday is 0
weekday(d) == (toordinal(d) + 6) % 7

\* date.fromordinal(n), with the time of day given
fromordinal(n, hour, minute) ==
  LET n0   == n - 1
      n400 == n0 \div 146097
      r400 == n0 % 146097
      n100 == r400 \div 36524
      r100 == r400 % 36524
      n4   == r100 \div 1461
      r4   == r100 % 1461
      n1   == r4 \div 365
      r1   == r4 % 365
      y    == n400 * 400 + 1 + n100 * 100 + n4 * 4 + n1
  IN  IF n1 = 4 \/ n100 = 4
      THEN [year |-> y - 1, month |-> 12, day |-> 31,
            hour |-> hour, minute |-> minute]
      ELSE LET m == CHOOSE mm \in 1..12 :
                      /\ DaysBeforeMonth(y, mm) <= r1
                      /\ r1 < DaysBeforeMonth(y, mm) + DaysInMonth(y, mm)
           IN  [year |-> y, month |-> m, day |-> r1 - DaysBeforeMonth(y, m) + 1,
                hour |-> hour, minute |-> minute]

\* datetime(year, month, day)
datetime(y, m, d) == [year |-> y, month |-> m, day |-> d, hour |-> 0, minute |-> 0]

\* d + timedelta(days=k)
AddDays(d, k) == fromordinal(toordinal(d) + k, d.hour, d.minute)

\* (d1 - d0).total_seconds()
total_seconds(d1, d0) ==
  (toordinal(d1) - toordinal(d0)) * 86400
    + (d1.hour - d0.hour) * 3600 + (d1.minute - d0.minute) * 60

\* the decimal digits of n, zero-padded to width w
RECURSIVE ZeroPad(_, _)
ZeroPad(n, w) ==
  IF w = 0 THEN <<>> ELSE Append(ZeroPad(n \div 10, w - 1), DigitChars[(n % 10) + 1])

\* d.strftime("%Y-%m-%d")
strftime_date(d) ==
  ZeroPad(d.year, 4) \o <<"-">> \o ZeroPad(d.month, 2) \o <<"-">> \o ZeroPad(d.day, 2)

\* d.strftime("%Y-%m-%d %H:%M")
strftime_minute(d) ==
  strftime_date(d) \o <<" ">> \o ZeroPad(d.hour, 2) \o <<":">> \o ZeroPad(d.minute, 2)

DigitValue(c) == (CHOOSE k \in 1..10 : DigitChars[k] = c) - 1

RECURSIVE ParseInt(_)
ParseInt(s) ==
  IF s = <<>> THEN 0
  ELSE ParseInt(SubSeq(s, 1, Len(s) - 1)) * 10 + DigitValue(s[Len(s)])

\* datetime.strptime(ps, "%Y-%m-%d") of a string written by strftime_date
strptime_date(ps) ==
  datetime(ParseInt(SubSeq(ps, 1, 4)), ParseInt(SubSeq(ps, 6, 7)),
           ParseInt(SubSeq(ps, 9, 10)))

\* s < t for Python strings of the model's alphabet: by code point, where the
\* strings compared (date strings) hold digits and "-" only, and "-" < "0"
CharRank(c) == IF c = "-" THEN 0 ELSE DigitValue(c) + 1

RECURSIVE StrLess(_, _)
StrLess(s, t) ==
  IF t = <<>> THEN FALSE
  ELSE IF s = <<>> THEN TRUE
  ELSE IF Head(s) # Head(t) THEN CharRank(Head(s)) < CharRank(Head(t))
  ELSE StrLess(Tail(s), Tail(t))

(***************************************************************************)
(* src/app/app.py: scoring                                                 *)
(***************************************************************************)
RECURSIVE AuthorityLookup(_, _)
AuthorityLookup(source_lower, k) ==
  IF k > Len(SOURCE_AUTHORITY) THEN 10
  ELSE IF IsSubstring(SOURCE_AUTHORITY[k].key, source_lower)
       THEN SOURCE_AUTHORITY[k].weight
       ELSE AuthorityLookup(source_lower, k + 1)

\* the last matching entry of the table, in tenths
get_source_authority_weight_last_match(source) ==
  LET source_lower == str_lower(source)
      hits == {k \in DOMAIN SOURCE_AUTHORITY :
                 IsSubstring(SOURCE_AUTHORITY[k].key, source_lower)}
  IN  IF ~Truthy(source) \/ hits = {} THEN 10
      ELSE SOURCE_AUTHORITY[CHOOSE k \in hits : \A m \in hits : m <= k].weight

\* in tenths
get_source_authority_weight(source) ==
  IF ~Truthy(source) THEN 10 ELSE AuthorityLookup(str_lower(source), 1)

Unknown == <<"u","n","k","n","o","w","n">>

\* len(set((art.get("source") or "unknown").lower() for art in cluster))
UniqueSources(cluster) ==
  Cardinality({str_lower(OrElse(cluster[k].source, Unknown)) : k \in DOMAIN cluster})

\* sum(get_source_authority_weight(art.get("source")) for art in cluster), in tenths
AuthorityScore(cluster) ==
  SumSeq([k \in DOMAIN cluster |-> get_source_authority_weight(cluster[k].source)])

\* freshness measured back from the period end
AvgFreshnessFromEnd(cluster, period_start, period_end) ==
  LET period_duration == total_seconds(period_end, period_start)
      freshness_scores ==
        [k \in DOMAIN cluster |->
           Rat(total_seconds(period_end, cluster[k].published), period_duration)]
  IN  IF period_duration > 0
      THEN (IF Len(cluster) > 0
            THEN RDivInt(RSum(freshness_scores), Len(cluster))
            ELSE Rat(1, 2))
      ELSE Rat(1, 2)

\* each article's freshness clamped to 0..1
AvgFreshnessClamped(cluster, period_start, period_end) ==
  LET period_duration == total_seconds(period_end, period_start)
      Clamp(t) == IF t < 0 THEN 0 ELSE IF t > period_duration THEN period_duration ELSE t
      freshness_scores ==
        [k \in DOMAIN cluster |->
           Rat(Clamp(total_seconds(cluster[k].published, period_start)), period_duration)]
  IN  IF period_duration > 0
      THEN (IF Len(cluster) > 0
            THEN RDivInt(RSum(freshness_scores), Len(cluster))
            ELSE Rat(1, 2))
      ELSE Rat(1, 2)

\* lines 197-208
AvgFreshness(cluster, period_start, period_end) ==
  LET period_duration == total_seconds(period_end, period_start)
      freshness_scores ==
        [k \in DOMAIN cluster |->
           Rat(total_seconds(cluster[k].published, period_start), period_duration)]
  IN  IF period_duration > 0
      THEN (IF Len(cluster) > 0
            THEN RDivInt(RSum(freshness_scores), Len(cluster))
            ELSE Rat(1, 2))
      ELSE Rat(1, 2)

calculate_importance_score(cluster, period_start, period_end) ==
  RAdd(RAdd(Rat(Len(cluster) * 4, 10), Rat(UniqueSources(cluster) * 25, 100)),
       RAdd(Rat(AuthorityScore(cluster) * 2, 100),
            RMul(AvgFreshness(cluster, period_start, period_end), Rat(225, 100))))

(***************************************************************************)
(* src/app/app.py: title normalisation and period starts                   *)
(***************************************************************************)
\* re.sub(r"[^a-z0-9\s]", " ", t)
KeepAlnum(t) ==
  [k \in 1..Len(t) |->
     IF t[k] \in Range(LowerCase) \cup Range(DigitChars) \cup Whitespace
     THEN t[k] ELSE " "]

KEY_TOKENS == 8

MIN_TOKEN_LEN == 3

\* the informative tokens of a title (lines 224-226)
TitleTokens(title) ==
  LET t       == KeepAlnum(str_lower(title))
      Keep(w) == Len(w) >= MIN_TOKEN_LEN /\ w \notin STOPWORDS
  IN  SelectSeq(split_ws(t), Keep)

normalize_title_two_tokens(title) ==
  IF ~Truthy(title) THEN <<>>
  ELSE join(<<" ">>, Prefix(TitleTokens(title), 2))

normalize_title(title) ==
  IF ~Truthy(title) THEN <<>>
  ELSE join(<<" ">>, Prefix(TitleTokens(title), KEY_TOKENS))

day_start(d) == datetime(d.year, d.month, d.day)

week_start_keeps_time(d) == AddDays(d, -weekday(d))

week_start(d) ==
  LET base == AddDays(d, -weekday(d)) IN datetime(base.year, base.month, base.day)

month_start(d) == datetime(d.year, d.month, 1)

(***************************************************************************)
(* src/app/app.py: summarize_cluster                                       *)
(***************************************************************************)
SUMMARY_LIMIT == 280

SUMMARY_CUT == 277

Ellipsis == <<".", ".", ".">>

\* re.sub(r"\s+", " ", d): each run of whitespace becomes one space
collapse_ws(d) ==
  LET RunStart(k) == ~(d[k] \in Whitespace /\ k > 1 /\ d[k - 1] \in Whitespace)
      kept        == SelectSeq([k \in 1..Len(d) |-> k], RunStart)
  IN  [j \in 1..Len(kept) |-> IF d[kept[j]] \in Whitespace THEN " " ELSE d[kept[j]]]

\* longest first, the later of two equally long ones first
RECURSIVE InsertByLenDescTiesLast(_, _)
InsertByLenDescTiesLast(s, x) ==
  IF s = <<>> THEN <<x>>
  ELSE IF Len(Head(s)) > Len(x) THEN <<Head(s)>> \o InsertByLenDescTiesLast(Tail(s), x)
  ELSE <<x>> \o s

\* list.sort(key=len, reverse=True): stable, longest first
RECURSIVE InsertByLenDesc(_, _)
InsertByLenDesc(s, x) ==
  IF s = <<>> THEN <<x>>
  ELSE IF Len(Head(s)) >= Len(x) THEN <<Head(s)>> \o InsertByLenDesc(Tail(s), x)
  ELSE <<x>> \o s

RECURSIVE SortByLenDesc(_)
SortByLenDesc(s) ==
  IF s = <<>> THEN <<>>
  ELSE InsertByLenDesc(SortByLenDesc(SubSeq(s, 1, Len(s) - 1)), s[Len(s)])

\* re.split(r"(?<=[.!?])\s+", text)[0].strip()
first_sentence(text) ==
  LET cuts == {k \in 2..Len(text) :
                 text[k] \in Whitespace /\ text[k - 1] \in SentenceEnd}
  IN  strip(IF cuts = {} THEN text
            ELSE SubSeq(text, 1, (CHOOSE k \in cuts : \A m \in cuts : k <= m) - 1))

\* a JSON number other than 0 where a string is expected
NumberVal == <<"Number">>

\* c.get("description", "").strip() raises AttributeError on a truthy value that
\* is not a string (line 329)
SummarizeRaises(cluster) ==
  \E k \in DOMAIN cluster : cluster[k].description = NumberVal

\* [c.get("description", "").strip() for c in cluster if c.get("description")]
RECURSIVE StrippedDescriptions(_)
StrippedDescriptions(cluster) ==
  IF cluster = <<>> THEN <<>>
  ELSE (IF Truthy(Head(cluster).description)
        THEN <<strip(Head(cluster).description)>> ELSE <<>>)
         \o StrippedDescriptions(Tail(cluster))

TrimOneLate(combined) ==
  IF Len(combined) > SUMMARY_LIMIT
  THEN rstrip(Prefix(combined, SUMMARY_CUT + 1)) \o Ellipsis
  ELSE combined

\* combined[:277].rstrip() + "..." when len(combined) > 280
Trim(combined) ==
  IF Len(combined) > SUMMARY_LIMIT
  THEN rstrip(Prefix(combined, SUMMARY_CUT)) \o Ellipsis
  ELSE combined

summarize_cluster(cluster, fallback_title) ==
  LET stripped == StrippedDescriptions(cluster)
      descs0   == [k \in DOMAIN stripped |-> collapse_ws(stripped[k])]
      descs    == SortByLenDesc(descs0)
      s1       == first_sentence(descs[1])
      s2       == IF Len(descs) > 1 THEN first_sentence(descs[2]) ELSE <<>>
      combined == IF s2 # <<>> /\ s2 # s1 THEN s1 \o <<" ">> \o s2 ELSE s1
  IN  IF Len(stripped) = 0 THEN fallback_title ELSE Trim(combined)

(***************************************************************************)
(* src/summarizer.py: summarize_article                                    *)
(***************************************************************************)
MIN_TEXT_LEN == 50

MIN_SENTENCE_LEN == 20

\* the non-empty pieces of re.split(r'[.!?]+', text)
split_runs(text) ==
  Runs(text, [k \in 1..Len(text) |-> text[k] \notin SentenceEnd])

split_sentences_from_20(text) ==
  LET segs     == split_runs(text)
      stripped == [k \in DOMAIN segs |-> strip(segs[k])]
      Keep(x)  == Len(x) >= MIN_SENTENCE_LEN
  IN  SelectSeq(stripped, Keep)

\* re.split(r'[.!?]+', text), then strip and keep the segments longer than 20
split_sentences(text) ==
  LET segs     == split_runs(text)
      stripped == [k \in DOMAIN segs |-> strip(segs[k])]
      Keep(x)  == Len(x) > MIN_SENTENCE_LEN
  IN  SelectSeq(stripped, Keep)

WordChars == Letters \cup Range(DigitChars) \cup {"_"}

\* the maximal runs of word characters
word_runs(s) ==
  Runs(s, [k \in 1..Len(s) |-> s[k] \in WordChars])

\* re.findall(r'\b[a-zA-Z]{2,}\b', text.lower()): a match is a whole run of word
\* characters, all of them letters, at least 2 long
tokenize(text) ==
  LET IsWord(w) == Len(w) >= 2 /\ \A k \in 1..Len(w) : w[k] \in Letters
  IN  SelectSeq(word_runs(str_lower(text)), IsWord)

\* [w for w in self._tokenize(sentence) if w.lower() not in self.stop_words]
ContentWords(sentence) ==
  LET Keep(w) == str_lower(w) \notin stop_words
  IN  SelectSeq(tokenize(sentence), Keep)

RECURSIVE Flatten(_)
Flatten(ss) == IF ss = <<>> THEN <<>> ELSE Head(ss) \o Flatten(Tail(ss))

NoGuard(words) == TRUE

\* if len(words) > 0 (line 152)
ScoreGuard(words) == Len(words) > 0

\* the division of line 153 runs with len(words) = 0 and raises ZeroDivisionError
ScoringRaises(sentences) ==
  \E k \in DOMAIN sentences :
    ScoreGuard(ContentWords(sentences[k])) /\ Len(ContentWords(sentences[k])) = 0

\* word_freq[word] (lines 141-144), all being every content word of every sentence
word_freq(all, w) == Cardinality({m \in DOMAIN all : all[m] = w})

\* the loop of lines 148-154 over the content words of each sentence
ScoreEntries(sentences, words, all) ==
  LET entry(k)  == [sentence |-> sentences[k],
                    score |-> Rat(SumSeq([m \in DOMAIN words[k] |-> word_freq(all, words[k][m])]),
                                  Len(words[k])),
                    idx |-> k - 1]
      Scored(k) == ScoreGuard(words[k])
      kept      == SelectSeq([k \in DOMAIN sentences |-> k], Scored)
  IN  [j \in DOMAIN kept |-> entry(kept[j])]

\* list of (sentence, score, original_index); idx counts from 0.  The content
\* words of the sentences are computed once and handed to ScoreEntries.
score_sentences(sentences) ==
  CHOOSE scored \in
    {ScoreEntries(sentences, words, Flatten(words)) :
       words \in {[k \in DOMAIN sentences |-> ContentWords(sentences[k])]}} : TRUE

\* sorted(scored, key=lambda x: x[1], reverse=True): stable, highest score first
RECURSIVE InsertByScoreDescTiesLast(_, _)
InsertByScoreDescTiesLast(s, x) ==
  IF s = <<>> THEN <<x>>
  ELSE IF RLess(x.score, Head(s).score) THEN <<Head(s)>> \o InsertByScoreDescTiesLast(Tail(s), x)
  ELSE <<x>> \o s

RECURSIVE InsertByScoreDesc(_, _)
InsertByScoreDesc(s, x) ==
  IF s = <<>> THEN <<x>>
  ELSE IF RLeq(x.score, Head(s).score) THEN <<Head(s)>> \o InsertByScoreDesc(Tail(s), x)
  ELSE <<x>> \o s

RECURSIVE SortByScoreDesc(_)
SortByScoreDesc(s) ==
  IF s = <<>> THEN <<>>
  ELSE InsertByScoreDesc(SortByScoreDesc(SubSeq(s, 1, Len(s) - 1)), s[Len(s)])

\* top_sentences.sort(key=lambda x: x[2])
RECURSIVE InsertByIdx(_, _)
InsertByIdx(s, x) ==
  IF s = <<>> THEN <<x>>
  ELSE IF Head(s).idx <= x.idx THEN <<Head(s)>> \o InsertByIdx(Tail(s), x)
  ELSE <<x>> \o s

RECURSIVE SortByIdx(_)
SortByIdx(s) ==
  IF s = <<>> THEN <<>>
  ELSE InsertByIdx(SortByIdx(SubSeq(s, 1, Len(s) - 1)), s[Len(s)])

\* s[:n] for any integer n
SliceTo(s, n) ==
  IF n >= 0 THEN Prefix(s, n)
  ELSE IF Len(s) + n > 0 THEN SubSeq(s, 1, Len(s) + n) ELSE <<>>

FALLBACK_LEN == 500

\* a Python value that is an int or None
PyInt(n) == [type |-> "int", val |-> n]

PyNone == [type |-> "NoneType", val |-> 0]

TooShortOnlyIfEmpty(text) == ~Truthy(text)

\* if not text or len(text.strip()) < 50
TooShort(text) == ~Truthy(text) \/ Len(strip(text)) < MIN_TEXT_LEN

\* the try block (lines 42-57) raises: len(sentences) <= num_sentences is a
\* TypeError when num_sentences is None, and scoring may divide by zero
TryRaises(text, num_sentences) ==
  \/ num_sentences.type # "int"
  \/ /\ Len(split_sentences(text)) > num_sentences.val
     /\ ScoringRaises(split_sentences(text))

\* the value the try block returns when it does not raise
TryBlock(text, num_sentences) ==
  LET sentences == split_sentences(text)
  IN  IF Len(sentences) <= num_sentences.val THEN text
      ELSE LET scored == score_sentences(sentences)
               top    == SortByIdx(SliceTo(SortByScoreDesc(scored), num_sentences.val))
           IN  join(<<" ">>, [k \in DOMAIN top |-> top[k].sentence])

summarize_article(text, num_sentences) ==
  IF TooShort(text) THEN text
  ELSE IF TryRaises(text, num_sentences) THEN Prefix(text, FALLBACK_LEN) \o Ellipsis
  ELSE TryBlock(text, num_sentences)

(***************************************************************************)
(* src/app/app.py: key_events_by_period, one step per loop iteration       *)
(***************************************************************************)
\* d.setdefault(key, []).append(x) on an insertion-ordered dict
setdefault_append(d, key, x) ==
  IF \E k \in DOMAIN d : d[k].key = key
  THEN LET k == CHOOSE k \in DOMAIN d : d[k].key = key
       IN  [d EXCEPT ![k].value = Append(@, x)]
  ELSE Append(d, [key |-> key, value |-> <<x>>])

\* the bucket key of an article (lines 248-253)
PeriodKey(published, gran) ==
  IF gran = "daily" THEN strftime_date(day_start(published))
  ELSE IF gran = "monthly" THEN strftime_date(month_start(published))
  ELSE strftime_date(week_start(published))

GroupKeyWithoutLink(art) ==
  LET key == normalize_title(OrElse(art.title, <<>>))
  IN  IF key # <<>> THEN key
      ELSE OrElse(art.title, Unknown)

\* the grouping key of an article (lines 260-262)
GroupKey(art) ==
  LET key == normalize_title(OrElse(art.title, <<>>))
  IN  IF key # <<>> THEN key
      ELSE OrElse(art.title, OrElse(art.link, Unknown))

\* groups.setdefault(key, []).append(art) (line 263)
GroupIntoOverwrite(grps, art) ==
  LET key == GroupKey(art)
  IN  IF \E k \in DOMAIN grps : grps[k].key = key
      THEN LET k == CHOOSE k \in DOMAIN grps : grps[k].key = key
           IN  [grps EXCEPT ![k].value = <<art>>]
      ELSE Append(grps, [key |-> key, value |-> <<art>>])

GroupIntoNewestFirst(grps, art) ==
  LET key == GroupKey(art)
  IN  IF \E k \in DOMAIN grps : grps[k].key = key
      THEN LET k == CHOOSE k \in DOMAIN grps : grps[k].key = key
           IN  [grps EXCEPT ![k].value = Append(@, art)]
      ELSE <<[key |-> key, value |-> <<art>>]>> \o grps

GroupInto(grps, art) == setdefault_append(grps, GroupKey(art), art)

PeriodEndSameYear(ps, gran) ==
  IF gran = "daily" THEN AddDays(ps, 1)
  ELSE IF gran = "monthly" THEN datetime(ps.year, (ps.month % 12) + 1, 1)
  ELSE AddDays(ps, 7)

\* a week that ends after one day
PeriodEndWeekOfOneDay(ps, gran) ==
  IF gran = "monthly"
  THEN (IF ps.month = 12 THEN datetime(ps.year + 1, 1, 1)
        ELSE datetime(ps.year, ps.month + 1, 1))
  ELSE AddDays(ps, 1)

\* the end of the bucket that starts at ps (lines 267-276)
PeriodEnd(ps, gran) ==
  IF gran = "daily" THEN AddDays(ps, 1)
  ELSE IF gran = "monthly"
       THEN (IF ps.month = 12 THEN datetime(ps.year + 1, 1, 1)
             ELSE datetime(ps.year, ps.month + 1, 1))
  ELSE AddDays(ps, 7)

BetterOrEqual(score, best) == RLeq(best, score)

\* if score > best_score
Better(score, best) == RLess(best, score)

\* a.published < c.published
DtLess(x, y) ==
  LET tx == <<x.year, x.month, x.day, x.hour, x.minute>>
      ty == <<y.year, y.month, y.day, y.hour, y.minute>>
  IN  \E k \in 1..5 : tx[k] < ty[k] /\ \A m \in 1..(k - 1) : tx[m] = ty[m]

\* the last seen of the earliest articles
RepresentativeLastSeen(cluster) ==
  cluster[CHOOSE k \in DOMAIN cluster :
            /\ \A m \in DOMAIN cluster : ~DtLess(cluster[m].published, cluster[k].published)
            /\ \A m \in (k + 1)..Len(cluster) : DtLess(cluster[k].published, cluster[m].published)]

\* sorted(best_cluster, key=lambda x: x["published"])[0]
Representative(cluster) ==
  cluster[CHOOSE k \in DOMAIN cluster :
            /\ \A m \in DOMAIN cluster : ~DtLess(cluster[m].published, cluster[k].published)
            /\ \A m \in 1..(k - 1) : DtLess(cluster[k].published, cluster[m].published)]

\* round(x, 2), on the exact value: to the nearest hundredth, ties to even
Round2(x) ==
  LET scaled == x.n * 100
      lo     == scaled \div x.d
      rem    == scaled % x.d
      up     == 2 * rem > x.d \/ (2 * rem = x.d /\ lo % 2 = 1)
  IN  Rat(IF up THEN lo + 1 ELSE lo, 100)

\* the KeyEvent of a winning cluster (lines 290-316)
KeyEvent(ps, cluster, score) ==
  LET rep == Representative(cluster)
  IN  [periodStart     |-> ps,
       title           |-> rep.title,
       link            |-> rep.link,
       published       |-> strftime_minute(rep.published),
       clusterSize     |-> Len(cluster),
       importanceScore |-> Round2(score),
       uniqueSources   |-> UniqueSources(cluster),
       avgAuthority    |-> Round2(Rat(AuthorityScore(cluster), 10 * Len(cluster))),
       summary         |-> summarize_cluster(cluster, OrElse(rep.title, <<>>))]

\* result.sort(key=lambda x: x["periodStart"]): stable
Unsorted(s) == s

RECURSIVE InsertByPeriodStart(_, _)
InsertByPeriodStart(s, x) ==
  IF s = <<>> THEN <<x>>
  ELSE IF ~StrLess(x.periodStart, Head(s).periodStart)
       THEN <<Head(s)>> \o InsertByPeriodStart(Tail(s), x)
  ELSE <<x>> \o s

RECURSIVE InsertionSortByPeriodStart(_)
InsertionSortByPeriodStart(s) ==
  IF s = <<>> THEN <<>>
  ELSE InsertByPeriodStart(InsertionSortByPeriodStart(SubSeq(s, 1, Len(s) - 1)),
                           s[Len(s)])

SortByPeriodStart(s) == InsertionSortByPeriodStart(s)

(***************************************************************************)
(* src/timeline.py: get_coverage_stats                                     *)
(***************************************************************************)
\* an article as src/news_crawler.py builds it: the keys 'publisher' and
\* 'published_date' may be missing, and a key that is there may hold None.
\* date_key is "absent", "None" or "datetime"
StatsArticle(has_publisher, publisher, date_key, published_date) ==
  [has_publisher |-> has_publisher, publisher |-> publisher,
   date_key |-> date_key, published_date |-> published_date]

UnknownPublisher == <<"U","n","k","n","o","w","n">>

\* the dictionary returned for an empty list (lines 217-222)
EmptyStatsSpanOne ==
  [total_articles |-> 0, unique_sources |-> 0, date_span_days |-> 1,
   avg_articles_per_day |-> Rat(0, 1)]

EmptyStats ==
  [total_articles |-> 0, unique_sources |-> 0, date_span_days |-> 0,
   avg_articles_per_day |-> Rat(0, 1)]

\* [article['published_date'] for article in articles if 'published_date' in article]
StatsDates(articles) ==
  LET HasKey(a) == a.date_key # "absent"
  IN  SelectSeq(articles, HasKey)

\* set(article.get('publisher', 'Unknown') for article in articles)
StatsSources(articles) ==
  {IF articles[k].has_publisher THEN articles[k].publisher ELSE UnknownPublisher :
     k \in DOMAIN articles}

\* max(dates) and min(dates)
MaxDate(dates) ==
  dates[CHOOSE k \in DOMAIN dates :
          \A m \in DOMAIN dates : ~DtLess(dates[k].published_date, dates[m].published_date)].published_date

MinDate(dates) ==
  dates[CHOOSE k \in DOMAIN dates :
          \A m \in DOMAIN dates : ~DtLess(dates[m].published_date, dates[k].published_date)].published_date

\* timedelta.days of d1 - d0, d0 not later than d1
timedelta_days(d1, d0) == total_seconds(d1, d0) \div 86400

DateSpanNoPlusOne(dates) == timedelta_days(MaxDate(dates), MinDate(dates))

\* (max(dates) - min(dates)).days + 1
DateSpan(dates) == timedelta_days(MaxDate(dates), MinDate(dates)) + 1

\* round(x, 1), on the exact value: to the nearest tenth, ties to even.  Python
\* rounds the binary float, which at a tie such as 3/20 lies a little to one side
\* of the exact value, so the last digit can differ there by one.
Round1(x) ==
  LET scaled == x.n * 10
      lo     == scaled \div x.d
      rem    == scaled % x.d
      up     == 2 * rem > x.d \/ (2 * rem = x.d /\ lo % 2 = 1)
  IN  Rat(IF up THEN lo + 1 ELSE lo, 10)

\* max() or the subtraction of line 229 raises TypeError when a date is None
StatsRaises(articles) ==
  \E k \in DOMAIN articles : articles[k].date_key = "None"

get_coverage_stats(articles) ==
  IF articles = <<>> THEN EmptyStats
  ELSE IF StatsRaises(articles)
    THEN [total_articles |-> Len(articles), unique_sources |-> 0, date_span_days |-> 0,
          avg_articles_per_day |-> Rat(0, 1)]
  ELSE LET dates     == StatsDates(articles)
           date_span == IF dates # <<>> THEN DateSpan(dates) ELSE 0
           avg       == IF dates # <<>>
                          THEN Rat(Len(articles), IF date_span > 1 THEN date_span ELSE 1)
                          ELSE Rat(0, 1)
       IN  [total_articles |-> Len(articles),
            unique_sources |-> Cardinality(StatsSources(articles)),
            date_span_days |-> date_span,
            avg_articles_per_day |-> Round1(avg)]

(***************************************************************************)
(* src/app.py and src/news_crawler.py: the shared crawler                  *)
(***************************************************************************)
\* src/config.py
MAX_ARTICLES == 20

\* lines 21-25 of src/app.py: the crawler as constructed when the module is
\* loaded, and no request being handled
ServerIdle ==
  /\ crawler = [max_results |-> MAX_ARTICLES]
  /\ search_articles = <<>>

\* no request takes a step
ServerUnchanged == UNCHANGED <<crawler, search_articles>>

(***************************************************************************)
(* Inputs                                                                  *)
(***************************************************************************)
MaxItems == 3

T_FedRaisesRates == <<"F","e","d"," ","r","a","i","s","e","s"," ","r","a","t","e","s">>

T_FedAgain == <<"F","e","d"," ","R","a","i","s","e","s"," ","I","n","t","e","r","e","s","t"," ","R","a","t","e","s"," ","A","g","a","i","n">>

T_Bakery == <<"L","o","c","a","l"," ","b","a","k","e","r","y"," ","w","i","n","s"," ","a","w","a","r","d">>

T_FedShout == <<"F","E","D"," ","r","a","i","s","e","s"," ","r","a","t","e","s","!">>

S_Reuters == <<"R","e","u","t","e","r","s">>

S_BBC == <<"B","B","C">>

S_DailyGazette == <<"D","a","i","l","y"," ","G","a","z","e","t","t","e">>

S_reuters == <<"r","e","u","t","e","r","s">>

D_Rates == <<"R","a","t","e","s"," ","u","p"," ","a","g","a","i","n","."," ","M","a","r","k","e","t","s"," ","f","e","l","l",".">>

D_Fed == <<"T","h","e"," ","F","e","d"," "," ","r","a","i","s","e","d"," ","r","a","t","e","s","."," "," ","A","g","a","i","n">>

D_Blank == <<" "," "," ">>

dt(y, m, d, hh, mm) == [year |-> y, month |-> m, day |-> d, hour |-> hh, minute |-> mm]

Article(title, link, published, source, description) ==
  [id |-> 0, title |-> title, link |-> link, published |-> published,
   source |-> source, description |-> description]

\* 2024-12-30 is a Monday; 2024-12-29 lies in the week before, 2025-01-02 in the
\* same week and in the next month and year
ArticlePalette ==
  { Article(T_FedRaisesRates, <<"u","1">>, dt(2024, 12, 30, 9, 0), S_Reuters, <<>>),
    Article(T_FedAgain, <<"u","2">>, dt(2024, 12, 30, 15, 0), S_BBC, D_Rates),
    Article(T_Bakery, <<"u","3">>, dt(2024, 12, 30, 12, 0), S_DailyGazette, NoneVal),
    Article(T_FedShout, <<"u","4">>, dt(2025, 1, 2, 9, 0), S_reuters, D_Fed),
    Article(NoneVal, <<"u","5">>, dt(2024, 12, 29, 18, 0), NoneVal, D_Blank),
    Article(T_FedRaisesRates, <<"u","7">>, dt(2024, 12, 30, 15, 0), S_BBC, D_Rates) }

Granularities == {"daily", "weekly", "monthly"}

SeqsUpTo(S, n) == UNION {[1..k -> S] : k \in 0..n}

\* the articles of a list are distinct objects: id is the position in the list
Numbered(s) == [k \in 1..Len(s) |-> [s[k] EXCEPT !.id = k]]

NoDate == datetime(1, 1, 1)

NoArg == <<>>

(***************************************************************************)
(* key_events_by_period as a state machine                                 *)
(***************************************************************************)
Init ==
  /\ pc = "bucket"
  /\ \E s \in SeqsUpTo(ArticlePalette, MaxItems) : items = Numbered(s)
  /\ granularity \in Granularities
  /\ i = 1
  /\ buckets = <<>>
  /\ b = 1
  /\ groups = <<>>
  /\ period_start_dt = NoDate
  /\ period_end_dt = NoDate
  /\ best_cluster = <<>>
  /\ best_score = Rat(-1, 1)
  /\ result = <<>>
  /\ arg = NoArg
  /\ ret = NoArg
  /\ ServerIdle

\* lines 247-254: one iteration of the bucketing loop
BucketItem ==
  /\ pc = "bucket"
  /\ i <= Len(items)
  /\ buckets' = setdefault_append(buckets, PeriodKey(items[i].published, granularity),
                                  items[i])
  /\ i' = i + 1
  /\ UNCHANGED <<pc, items, granularity, b, groups, period_start_dt, period_end_dt,
                 best_cluster, best_score, result, arg, ret,
                 crawler, search_articles>>

\* line 257: the bucketing loop is over; the loop over the buckets starts
BucketsDone ==
  /\ pc = "bucket"
  /\ i > Len(items)
  /\ pc' = IF buckets = <<>> THEN "sort" ELSE "group"
  /\ i' = 1
  /\ b' = 1
  /\ groups' = <<>>
  /\ UNCHANGED <<items, granularity, buckets, period_start_dt, period_end_dt,
                 best_cluster, best_score, result, arg, ret,
                 crawler, search_articles>>

\* lines 259-263: one iteration of the grouping loop
GroupArticle ==
  /\ pc = "group"
  /\ i <= Len(buckets[b].value)
  /\ groups' = GroupInto(groups, buckets[b].value[i])
  /\ i' = i + 1
  /\ UNCHANGED <<pc, items, granularity, buckets, b, period_start_dt, period_end_dt,
                 best_cluster, best_score, result, arg, ret,
                 crawler, search_articles>>

\* lines 265-280: the period boundaries, and the scoring loop starts
PeriodBounds ==
  /\ pc = "group"
  /\ i > Len(buckets[b].value)
  /\ period_start_dt' = strptime_date(buckets[b].key)
  /\ period_end_dt' = PeriodEnd(strptime_date(buckets[b].key), granularity)
  /\ best_cluster' = <<>>
  /\ best_score' = Rat(-1, 1)
  /\ i' = 1
  /\ pc' = "score"
  /\ UNCHANGED <<items, granularity, buckets, b, groups, result, arg, ret,
                 crawler, search_articles>>

\* lines 281-285: one iteration of the scoring loop
ScoreCluster ==
  /\ pc = "score"
  /\ i <= Len(groups)
  /\ LET score == calculate_importance_score(groups[i].value, period_start_dt,
                                             period_end_dt)
     IN  IF Better(score, best_score)
         THEN best_score' = score /\ best_cluster' = groups[i].value
         ELSE UNCHANGED <<best_score, best_cluster>>
  /\ i' = i + 1
  /\ UNCHANGED <<pc, items, granularity, buckets, b, groups, period_start_dt,
                 period_end_dt, result, arg, ret,
                 crawler, search_articles>>

\* lines 287-316: the bucket's KeyEvent, unless no cluster won; then the next bucket
Emit ==
  /\ pc = "score"
  /\ i > Len(groups)
  /\ ~SummarizeRaises(best_cluster)
  /\ result' = IF best_cluster = <<>> THEN result
               ELSE Append(result, KeyEvent(buckets[b].key, best_cluster, best_score))
  /\ pc' = IF b < Len(buckets) THEN "group" ELSE "sort"
  /\ b' = IF b < Len(buckets) THEN b + 1 ELSE b
  /\ i' = 1
  /\ groups' = IF b < Len(buckets) THEN <<>> ELSE groups
  /\ UNCHANGED <<items, granularity, buckets, period_start_dt, period_end_dt,
                 best_cluster, best_score, arg, ret,
                 crawler, search_articles>>

\* line 294: summarize_cluster raises; nothing in key_events_by_period catches
\* the exception, so the call ends without a return value
EmitRaises ==
  /\ pc = "score"
  /\ i > Len(groups)
  /\ SummarizeRaises(best_cluster)
  /\ pc' = "raised"
  /\ UNCHANGED <<items, granularity, i, buckets, b, groups, period_start_dt,
                 period_end_dt, best_cluster, best_score, result, arg, ret,
                 crawler, search_articles>>

SortResultAndInput ==
  /\ pc = "sort"
  /\ result' = SortByPeriodStart(result)
  /\ items' = [k \in DOMAIN items |-> items[Len(items) + 1 - k]]
  /\ pc' = "done"
  /\ UNCHANGED <<granularity, i, buckets, b, groups, period_start_dt,
                 period_end_dt, best_cluster, best_score, arg, ret,
                 crawler, search_articles>>

\* lines 318-319: the final sort and the return
SortResult ==
  /\ pc = "sort"
  /\ result' = SortByPeriodStart(result)
  /\ pc' = "done"
  /\ UNCHANGED <<items, granularity, i, buckets, b, groups, period_start_dt,
                 period_end_dt, best_cluster, best_score, arg, ret,
                 crawler, search_articles>>

Next ==
  \/ BucketItem
  \/ BucketsDone
  \/ GroupArticle
  \/ PeriodBounds
  \/ ScoreCluster
  \/ Emit
  \/ SortResult

Spec == Init /\ [][Next]_vars

(***************************************************************************)
(* key_events_by_period on articles stamped at the edges of their periods  *)
(* (specification SpecEdges)                                               *)
(***************************************************************************)
MaxEdgeItems == 3

\* the first minute of a day and a week (2024-12-30 is a Monday) and of a
\* month and year (2025-01-01), and the last minute of a week (2025-01-05 is a
\* Sunday) and of a month and year (2024-12-31); the two articles of the last
\* minute of 2024 have one key and different titles, links and sources
EdgePalette ==
  { Article(T_FedRaisesRates, <<"u","1">>, dt(2024, 12, 30, 0, 0), S_Reuters, <<>>),
    Article(T_Bakery, <<"u","2">>, dt(2025, 1, 5, 23, 59), S_BBC, D_Rates),
    Article(T_FedRaisesRates, <<"u","3">>, dt(2024, 12, 31, 23, 59), S_reuters, NoneVal),
    Article(T_FedShout, <<"u","4">>, dt(2024, 12, 31, 23, 59), NoneVal, D_Fed),
    Article(T_Bakery, <<"u","5">>, dt(2025, 1, 1, 0, 0), S_DailyGazette, <<>>) }

InitEdges ==
  /\ pc = "bucket"
  /\ \E s \in SeqsUpTo(EdgePalette, MaxEdgeItems) : items = Numbered(s)
  /\ granularity \in Granularities
  /\ i = 1
  /\ buckets = <<>>
  /\ b = 1
  /\ groups = <<>>
  /\ period_start_dt = NoDate
  /\ period_end_dt = NoDate
  /\ best_cluster = <<>>
  /\ best_score = Rat(-1, 1)
  /\ result = <<>>
  /\ arg = NoArg
  /\ ret = NoArg
  /\ ServerIdle

SpecEdges == InitEdges /\ [][Next]_vars

(***************************************************************************)
(* key_events_by_period on articles of which one has a description that is *)
(* not a string (specification SpecWithFaults)                             *)
(***************************************************************************)
MaxFaultItems == 3

FaultPalette ==
  { Article(T_FedRaisesRates, <<"u","1">>, dt(2024, 12, 30, 9, 0), S_Reuters, <<>>),
    Article(T_FedShout, <<"u","4">>, dt(2025, 1, 2, 9, 0), S_reuters, D_Fed),
    Article(NoneVal, <<"u","5">>, dt(2024, 12, 29, 18, 0), NoneVal, D_Blank),
    Article(T_Bakery, <<"u","8">>, dt(2024, 12, 31, 12, 0), S_DailyGazette, NumberVal) }

InitWithFaults ==
  /\ pc = "bucket"
  /\ \E s \in SeqsUpTo(FaultPalette, MaxFaultItems) : items = Numbered(s)
  /\ granularity \in Granularities
  /\ i = 1
  /\ buckets = <<>>
  /\ b = 1
  /\ groups = <<>>
  /\ period_start_dt = NoDate
  /\ period_end_dt = NoDate
  /\ best_cluster = <<>>
  /\ best_score = Rat(-1, 1)
  /\ result = <<>>
  /\ arg = NoArg
  /\ ret = NoArg
  /\ ServerIdle

NextWithFaults ==
  \/ Next
  \/ EmitRaises

SpecWithFaults == InitWithFaults /\ [][NextWithFaults]_vars

(***************************************************************************)
(* calculate_importance_score called on its own (specification SpecScore)  *)
(***************************************************************************)
MaxCluster == 2

\* key_events_by_period is not running
KeyEventsIdle ==
  /\ items = <<>>
  /\ granularity = "weekly"
  /\ i = 1
  /\ buckets = <<>>
  /\ b = 1
  /\ groups = <<>>
  /\ period_start_dt = NoDate
  /\ period_end_dt = NoDate
  /\ best_cluster = <<>>
  /\ best_score = Rat(-1, 1)
  /\ result = <<>>

KeyEventsUnchanged ==
  UNCHANGED <<items, granularity, i, buckets, b, groups, period_start_dt,
              period_end_dt, best_cluster, best_score, result>>

ScoreSources == {S_Reuters, S_DailyGazette}

ScoreTimes ==
  { dt(2024, 12, 1, 0, 0), dt(2024, 12, 30, 0, 0), dt(2024, 12, 30, 12, 0),
    dt(2024, 12, 30, 23, 59), dt(2025, 1, 5, 18, 0) }

\* the buckets scored: a day, the week that holds it, the month that holds it
ScorePeriods ==
  { [start |-> datetime(2024, 12, 30), gran |-> "daily"],
    [start |-> datetime(2024, 12, 30), gran |-> "weekly"],
    [start |-> datetime(2024, 12, 1), gran |-> "monthly"] }

\* the articles with one title whose timestamp key_events_by_period puts in bucket p
ArticlesIn(p) ==
  { Article(T_FedRaisesRates, <<"u">>, t, src, <<>>) :
      t \in {u \in ScoreTimes : PeriodKey(u, p.gran) = strftime_date(p.start)},
      src \in ScoreSources }

ScoreInputs ==
  UNION { { [cluster |-> Numbered(c), extra |-> [e EXCEPT !.id = Len(c) + 1],
             period_start |-> p.start, period_end |-> PeriodEnd(p.start, p.gran)] :
              c \in SeqsUpTo(ArticlesIn(p), MaxCluster) \ {<<>>}, e \in ArticlesIn(p) } :
          p \in ScorePeriods }

InitScore ==
  /\ pc = "call_score"
  /\ KeyEventsIdle
  /\ arg \in ScoreInputs
  /\ ret = NoArg
  /\ ServerIdle

\* the score of the cluster, and of the cluster with one more article of its key
ScoreCall ==
  /\ pc = "call_score"
  /\ ret' = [before |-> calculate_importance_score(arg.cluster, arg.period_start,
                                                    arg.period_end),
             after  |-> calculate_importance_score(Append(arg.cluster, arg.extra),
                                                    arg.period_start, arg.period_end)]
  /\ pc' = "return_score"
  /\ UNCHANGED arg
  /\ KeyEventsUnchanged
  /\ ServerUnchanged

NextScore == ScoreCall

SpecScore == InitScore /\ [][NextScore]_vars

(***************************************************************************)
(* The grouping keys of a list of articles (specification SpecKey)         *)
(***************************************************************************)
MaxKeyed == 2

\* a title of which normalisation leaves nothing
T_The == <<"T","h","e">>

T_Blank == <<" "," ">>

TitlePalette == {NoneVal, <<>>, T_The, T_Blank, T_FedRaisesRates, T_FedShout}

LinkPalette == {NoneVal, <<>>, <<"u","1">>}

KeyPalette ==
  {Article(t, l, dt(2024, 12, 30, 9, 0), S_BBC, <<>>) : t \in TitlePalette, l \in LinkPalette}

InitKey ==
  /\ pc = "call_keys"
  /\ KeyEventsIdle
  /\ \E s \in SeqsUpTo(KeyPalette, MaxKeyed) : arg = [arr |-> s]
  /\ ret = NoArg
  /\ ServerIdle

\* lines 259-262: the key of each article of a bucket
KeysCall ==
  /\ pc = "call_keys"
  /\ ret' = [k \in DOMAIN arg.arr |-> GroupKey(arg.arr[k])]
  /\ pc' = "return_keys"
  /\ UNCHANGED arg
  /\ KeyEventsUnchanged
  /\ ServerUnchanged

NextKey == KeysCall

SpecKey == InitKey /\ [][NextKey]_vars

(***************************************************************************)
(* summarize_cluster called on its own (specification SpecCluster)         *)
(***************************************************************************)
MaxDescs == 2

Rep(c, n) == [k \in 1..n |-> c]

D_RatesOther == <<"R","a","t","e","s"," ","u","p"," ","a","g","a","i","n","."," ","O","t","h","e","r"," ","n","e","w","s",".">>

\* one sentence of 151 characters
D_LongA == Rep("a", 150) \o <<".">>

\* a first sentence of 141 characters, and a second one
D_LongE == Rep("e", 140) \o <<"!", " ", "M", "o", "r", "e", ".">>

\* 307 characters without a sentence end; character 277 is a space
D_LongB == Rep("b", 276) \o <<" ">> \o Rep("c", 30)

\* 281 characters without a space
D_LongD == Rep("d", 281)

DescriptionPalette ==
  {NoneVal, <<>>, D_Blank, D_Rates, D_RatesOther, D_Fed, D_LongA, D_LongE, D_LongB, D_LongD}

\* a title of 300 characters
T_Long == Rep("t", 300)

FallbackPalette == {T_Bakery, <<>>, T_Long}

ClusterInputs ==
  { [cluster |-> Numbered([k \in DOMAIN ds |->
                   Article(T_Bakery, <<"u">>, dt(2024, 12, 30, 12, 0), S_BBC, ds[k])]),
     fallback_title |-> t] :
      ds \in SeqsUpTo(DescriptionPalette, MaxDescs), t \in FallbackPalette }

InitCluster ==
  /\ pc = "call_cluster"
  /\ KeyEventsIdle
  /\ arg \in ClusterInputs
  /\ ret = NoArg
  /\ ServerIdle

ClusterCall ==
  /\ pc = "call_cluster"
  /\ ret' = summarize_cluster(arg.cluster, arg.fallback_title)
  /\ pc' = "return_cluster"
  /\ UNCHANGED arg
  /\ KeyEventsUnchanged
  /\ ServerUnchanged

NextCluster == ClusterCall

SpecCluster == InitCluster /\ [][NextCluster]_vars

(***************************************************************************)
(* summarize_article called on its own (specification SpecArticle)         *)
(***************************************************************************)
MaxPieces == 3

MaxNumSentences == 3

\* a segment of 22 characters
Piece_RatesRose == <<"R","a","t","e","s"," ","r","o","s","e"," ","a","g","a","i","n"," ","t","o","d","a","y","."," ">>

\* a segment of 21 characters
Piece_MarketsFell == <<"M","a","r","k","e","t","s"," ","f","e","l","l"," ","o","n"," ","r","a","t","e","s","!"," ">>

\* a segment of 22 characters without a word
Piece_Digits == <<"1","2","3","4","5"," ","6","7","8","9","0"," ","1","2","3","4","5"," ","6","7","8","9","."," ">>

\* a segment of 20 characters
Piece_StocksFlat == <<"S","t","o","c","k","s"," ","w","e","r","e"," ","f","l","a","t"," ","n","o","w","."," ">>

\* a segment of 23 characters
Piece_BondsLower == <<"B","o","n","d","s"," ","m","o","v","e","d"," ","l","o","w","e","r"," ","t","o","d","a","y","."," ">>

PiecePalette ==
  {Piece_RatesRose, Piece_MarketsFell, Piece_Digits, Piece_StocksFlat, Piece_BondsLower}

\* a text of 520 characters
LongText == Rep("x", 520)

Texts == {Flatten(ps) : ps \in SeqsUpTo(PiecePalette, MaxPieces)} \cup {LongText}

InitArticle ==
  /\ pc = "call_article"
  /\ KeyEventsIdle
  /\ \E t \in Texts :
       \/ \E n \in 0..MaxNumSentences : arg = [text |-> t, num_sentences |-> PyInt(n)]
       \/ arg = [text |-> t, num_sentences |-> PyNone]
  /\ ret = NoArg
  /\ ServerIdle

ArticleCall ==
  /\ pc = "call_article"
  /\ ret' = summarize_article(arg.text, arg.num_sentences)
  /\ pc' = "return_article"
  /\ UNCHANGED arg
  /\ KeyEventsUnchanged
  /\ ServerUnchanged

NextArticle == ArticleCall

SpecArticle == InitArticle /\ [][NextArticle]_vars

(***************************************************************************)
(* get_coverage_stats called on its own (specification SpecCoverage)       *)
(***************************************************************************)
MaxStats == 3

S_CNN == <<"C","N","N">>

\* 2024-12-29 18:00 to 2024-12-30 09:00 is less than a day across midnight, to
\* 2025-01-01 17:59 a minute less than three days, to 2025-01-01 18:00 three days
StatsPalette ==
  { StatsArticle(TRUE, S_Reuters, "datetime", dt(2024, 12, 29, 18, 0)),
    StatsArticle(TRUE, S_BBC, "datetime", dt(2024, 12, 30, 9, 0)),
    StatsArticle(TRUE, S_Reuters, "datetime", dt(2025, 1, 1, 17, 59)),
    StatsArticle(FALSE, NoneVal, "datetime", dt(2025, 1, 1, 18, 0)),
    StatsArticle(TRUE, NoneVal, "datetime", dt(2024, 12, 30, 9, 0)),
    StatsArticle(TRUE, S_CNN, "absent", NoDate),
    StatsArticle(TRUE, S_CNN, "None", NoDate) }

InitCoverage ==
  /\ pc = "call_stats"
  /\ KeyEventsIdle
  /\ \E s \in SeqsUpTo(StatsPalette, MaxStats) : arg = [articles |-> s]
  /\ ret = NoArg
  /\ ServerIdle

StatsCall ==
  /\ pc = "call_stats"
  /\ ret' = get_coverage_stats(arg.articles)
  /\ pc' = "return_stats"
  /\ UNCHANGED arg
  /\ KeyEventsUnchanged
  /\ ServerUnchanged

NextCoverage == StatsCall

SpecCoverage == InitCoverage /\ [][NextCoverage]_vars

(***************************************************************************)
(* A caller that computes the key events of an article list and then the   *)
(* coverage statistics of the same articles (specification                 *)
(* SpecTimelineThenStats)                                                  *)
(***************************************************************************)
MaxCallerItems == 2

\* the articles of key_events_by_period in the record layout of get_coverage_stats
AsCrawled(arts) ==
  [k \in DOMAIN arts |-> StatsArticle(TRUE, arts[k].source, "datetime", arts[k].published)]

InitTimelineThenStats ==
  /\ pc = "bucket"
  /\ \E s \in SeqsUpTo(ArticlePalette, MaxCallerItems) : items = Numbered(s)
  /\ granularity \in Granularities
  /\ i = 1
  /\ buckets = <<>>
  /\ b = 1
  /\ groups = <<>>
  /\ period_start_dt = NoDate
  /\ period_end_dt = NoDate
  /\ best_cluster = <<>>
  /\ best_score = Rat(-1, 1)
  /\ result = <<>>
  /\ arg = [articles |-> AsCrawled(items)]
  /\ ret = NoArg
  /\ ServerIdle

StatsAfterTimeline ==
  /\ pc = "done"
  /\ ret' = get_coverage_stats(arg.articles)
  /\ pc' = "return_stats"
  /\ UNCHANGED arg
  /\ KeyEventsUnchanged
  /\ ServerUnchanged

NextTimelineThenStats ==
  \/ Next
  \/ StatsAfterTimeline

SpecTimelineThenStats == InitTimelineThenStats /\ [][NextTimelineThenStats]_vars

(***************************************************************************)
(* key_events_by_period while another invocation summarizes the same       *)
(* articles and computes their coverage statistics                         *)
(* (specification SpecParallel)                                            *)
(***************************************************************************)
MaxParallelItems == 2

InitParallel ==
  /\ pc = "bucket"
  /\ \E s \in SeqsUpTo(ArticlePalette, MaxParallelItems) : items = Numbered(s)
  /\ granularity \in Granularities
  /\ i = 1
  /\ buckets = <<>>
  /\ b = 1
  /\ groups = <<>>
  /\ period_start_dt = NoDate
  /\ period_end_dt = NoDate
  /\ best_cluster = <<>>
  /\ best_score = Rat(-1, 1)
  /\ result = <<>>
  /\ arg = [articles |-> AsCrawled(items),
            texts |-> [k \in DOMAIN items |-> items[k].description]]
  /\ ret = NoArg
  /\ ServerIdle

\* the other invocation, at any moment of the first: summarize_article on each
\* article's text and get_coverage_stats on the list (src/app.py lines 76-84)
OtherInvocation ==
  /\ ret = NoArg
  /\ ret' = [summaries |-> [k \in DOMAIN arg.texts |-> summarize_article(arg.texts[k], PyInt(2))],
             coverage_stats |-> get_coverage_stats(arg.articles)]
  /\ UNCHANGED <<pc, items, granularity, i, buckets, b, groups, period_start_dt,
                 period_end_dt, best_cluster, best_score, result, arg,
                 crawler, search_articles>>

NextParallel ==
  \/ Next
  \/ OtherInvocation

SpecParallel == InitParallel /\ [][NextParallel]_vars

(***************************************************************************)
(* week_start called on its own (specification SpecWeek)                   *)
(***************************************************************************)
WeekFirstYear == 2024

WeekYears == 2

\* the first and the last minute of every day of January, February, March and
\* December of the years from WeekFirstYear on; 2024 is a leap year
WeekInputs ==
  {dt(y, m, d, t[1], t[2]) :
     y \in WeekFirstYear..(WeekFirstYear + WeekYears - 1), m \in {1, 2, 3, 12},
     d \in 1..31, t \in {<<0, 0>>, <<23, 59>>}}

InitWeek ==
  /\ pc = "call_week"
  /\ KeyEventsIdle
  /\ \E d \in WeekInputs : d.day <= DaysInMonth(d.year, d.month) /\ arg = [d |-> d]
  /\ ret = NoArg
  /\ ServerIdle

WeekCall ==
  /\ pc = "call_week"
  /\ ret' = week_start(arg.d)
  /\ pc' = "return_week"
  /\ UNCHANGED arg
  /\ KeyEventsUnchanged
  /\ ServerUnchanged

NextWeek == WeekCall

SpecWeek == InitWeek /\ [][NextWeek]_vars

(***************************************************************************)
(* get_source_authority_weight called on its own (specification            *)
(* SpecAuthority)                                                          *)
(***************************************************************************)
MaxNameParts == 2

N_CNN == <<"C","N","N">>

N_BBCNews == <<"B","B","C"," ","N","e","w","s">>

N_Microsoft == <<"M","i","c","r","o","s","o","f","t">>

N_Bloomberg == <<"B","l","o","o","m","b","e","r","g">>

N_NPR == <<"N","P","R">>

\* words of source names: premium outlets, major networks, a name that holds
\* the key "ft" and a name that holds no key
NamePalette ==
  {N_CNN, S_Reuters, N_BBCNews, N_Microsoft, N_Bloomberg, N_NPR, S_DailyGazette}

\* None, "", and the names made of up to MaxNameParts words
SourceInputs ==
  {NoneVal} \cup {join(<<" ">>, ps) : ps \in SeqsUpTo(NamePalette, MaxNameParts)}

InitAuthority ==
  /\ pc = "call_weight"
  /\ KeyEventsIdle
  /\ \E src \in SourceInputs : arg = [source |-> src]
  /\ ret = NoArg
  /\ ServerIdle

WeightCall ==
  /\ pc = "call_weight"
  /\ ret' = [weight |-> get_source_authority_weight(arg.source)]
  /\ pc' = "return_weight"
  /\ UNCHANGED arg
  /\ KeyEventsUnchanged
  /\ ServerUnchanged

NextAuthority == WeightCall

SpecAuthority == InitAuthority /\ [][NextAuthority]_vars

(***************************************************************************)
(* calculate_importance_score called with any period (specification       *)
(* SpecFreshness)                                                          *)
(***************************************************************************)
MaxFreshCluster == 2

\* before the period, inside it, at its end and after its end
FreshnessTimes ==
  { dt(2024, 12, 29, 18, 0), dt(2024, 12, 30, 12, 0), dt(2024, 12, 31, 0, 0),
    dt(2025, 1, 5, 18, 0) }

\* a day, and a period that ends when it starts
FreshnessPeriods ==
  { [start |-> datetime(2024, 12, 30), end |-> datetime(2024, 12, 31)],
    [start |-> datetime(2024, 12, 30), end |-> datetime(2024, 12, 30)] }

FreshnessArticles ==
  { Article(T_FedRaisesRates, <<"u">>, t, src, <<>>) :
      t \in FreshnessTimes, src \in ScoreSources }

FreshnessInputs ==
  { [cluster |-> Numbered(c), extra |-> [x EXCEPT !.id = Len(c) + 1],
     period_start |-> p.start, period_end |-> p.end] :
      c \in SeqsUpTo(FreshnessArticles, MaxFreshCluster), x \in FreshnessArticles,
      p \in FreshnessPeriods }

InitFreshness ==
  /\ pc = "call_score"
  /\ KeyEventsIdle
  /\ arg \in FreshnessInputs
  /\ ret = NoArg
  /\ ServerIdle

NextFreshness == ScoreCall

SpecFreshness == InitFreshness /\ [][NextFreshness]_vars

(***************************************************************************)
(* /search requests handled concurrently (specification SpecSearch)        *)
(***************************************************************************)
NumRequests == 2

MaxArticlesAsked == 3

FeedSize == 4

Requests == 1..NumRequests

\* what the news source has for the keyword, newest first
Feed == [k \in 1..FeedSize |-> k]

\* every request is about to run line 59 of src/app.py, with its own
\* max_articles
InitSearch ==
  /\ pc = [r \in Requests |-> "set_max_results"]
  /\ KeyEventsIdle
  /\ arg \in [Requests -> [max_articles : 1..MaxArticlesAsked]]
  /\ ret = NoArg
  /\ crawler = [max_results |-> MAX_ARTICLES]
  /\ search_articles = [r \in Requests |-> <<>>]

\* src/app.py line 59: crawler.max_results = max_articles
SetMaxResults(r) ==
  /\ pc[r] = "set_max_results"
  /\ crawler' = [crawler EXCEPT !.max_results = arg[r].max_articles]
  /\ pc' = [pc EXCEPT ![r] = "fetch_with_gnews"]
  /\ UNCHANGED <<arg, ret, search_articles>>
  /\ KeyEventsUnchanged

\* src/news_crawler.py lines 53, 56 and 79-121: GNews is built with
\* self.max_results as read now and returns at most that many articles, or the
\* fetch fails and yields []; fewer than 3 articles lead to the scraper
FetchWithGnews(r) ==
  /\ pc[r] = "fetch_with_gnews"
  /\ \E got \in {Prefix(Feed, crawler.max_results), <<>>} :
       /\ search_articles' = [search_articles EXCEPT ![r] = got]
       /\ pc' = [pc EXCEPT ![r] = IF Len(got) < 3 THEN "fetch_with_scraping"
                                  ELSE "limit"]
  /\ UNCHANGED <<arg, ret, crawler>>
  /\ KeyEventsUnchanged

\* lines 58-62 and 123-154: the scraper keeps article_elements[:self.max_results]
\* with self.max_results as read now, or fails and yields []; with no article
\* search_news returns []
FetchWithScraping(r) ==
  /\ pc[r] = "fetch_with_scraping"
  /\ \E got \in {Prefix(Feed, crawler.max_results), <<>>} :
       /\ search_articles' = [search_articles EXCEPT ![r] = got]
       /\ pc' = [pc EXCEPT ![r] = IF got = <<>> THEN "responded" ELSE "limit"]
  /\ UNCHANGED <<arg, ret, crawler>>
  /\ KeyEventsUnchanged

\* lines 67-73: articles = articles[:self.max_results] with self.max_results as
\* read now; the sort keeps the number of articles, and search() answers with
\* the list
LimitResults(r) ==
  /\ pc[r] = "limit"
  /\ search_articles' =
       [search_articles EXCEPT ![r] = Prefix(search_articles[r], crawler.max_results)]
  /\ pc' = [pc EXCEPT ![r] = "responded"]
  /\ UNCHANGED <<arg, ret, crawler>>
  /\ KeyEventsUnchanged

NextSearch ==
  \E r \in Requests :
    \/ SetMaxResults(r)
    \/ FetchWithGnews(r)
    \/ FetchWithScraping(r)
    \/ LimitResults(r)

SpecSearch == InitSearch /\ [][NextSearch]_vars

(***************************************************************************)
(* Claims on key_events_by_period (specification Spec)                     *)
(***************************************************************************)
\* the ids of the articles of a list
Ids(arts) == {arts[k].id : k \in DOMAIN arts}

\* the number of places at which article id occurs in the clusters
Occurrences(id) ==
  Cardinality({pos \in UNION {{<<g, m>> : m \in DOMAIN groups[g].value} : g \in DOMAIN groups} :
                 groups[pos[1]].value[pos[2]].id = id})

\* C1: once a bucket is grouped (the scoring loop runs on the finished groups),
\* its clusters partition it: no cluster is empty, every article of the bucket
\* occurs at exactly one place of exactly one cluster, the clusters hold nothing
\* but the bucket's articles, and a cluster holds the articles of its key.
C1_ClustersPartitionBucket ==
  pc = "score" =>
    /\ \A g \in DOMAIN groups : groups[g].value # <<>>
    /\ \A k \in DOMAIN buckets[b].value : Occurrences(buckets[b].value[k].id) = 1
    /\ UNION {Ids(groups[g].value) : g \in DOMAIN groups} = Ids(buckets[b].value)
    /\ \A g \in DOMAIN groups : \A m \in DOMAIN groups[g].value :
         /\ GroupKey(groups[g].value[m]) = groups[g].key
         /\ groups[g].value[m] \in Range(buckets[b].value)
    /\ \A g, h \in DOMAIN groups : groups[g].key = groups[h].key => g = h

\* a bucket of three articles grouped into two clusters, one of them of two articles
C1_Witness ==
  /\ pc = "score"
  /\ Len(buckets[b].value) = 3
  /\ Len(groups) = 2
  /\ \E g \in DOMAIN groups : Len(groups[g].value) = 2

\* Scenario A: the three titles and sources, in this order, on one day
IsScenarioA ==
  /\ Len(items) = 3
  /\ items[1].title = T_FedRaisesRates /\ items[1].source = S_Reuters
  /\ items[2].title = T_FedAgain /\ items[2].source = S_BBC
  /\ items[3].title = T_Bakery /\ items[3].source = S_DailyGazette
  /\ \A k \in 1..3 : day_start(items[k].published) = day_start(items[1].published)
  /\ granularity = "daily"

\* C2 as stated: in Scenario A the first two articles share a cluster, and the one
\* KeyEvent of the day has clusterSize 2 and uniqueSources 2.
C2_ScenarioA_AsStated ==
  IsScenarioA =>
    /\ pc = "score" => \E g \in DOMAIN groups : {1, 2} \subseteq Ids(groups[g].value)
    /\ pc = "done" => /\ Len(result) = 1
                      /\ result[1].clusterSize = 2
                      /\ result[1].uniqueSources = 2

\* C2 amended: in Scenario A the three keys differ ("fed raises rates", "fed raises
\* interest rates again", "local bakery wins award"), so the day has three clusters
\* of one article each, and its one KeyEvent has clusterSize 1 and uniqueSources 1.
C2_ScenarioA_Singletons ==
  IsScenarioA =>
    /\ pc = "score" => /\ Len(groups) = 3
                       /\ \A g \in DOMAIN groups : Len(groups[g].value) = 1
    /\ pc = "done" => /\ Len(result) = 1
                      /\ result[1].periodStart = strftime_date(items[1].published)
                      /\ result[1].clusterSize = 1
                      /\ result[1].uniqueSources = 1

C2_Witness == IsScenarioA /\ pc = "done" /\ Len(result) = 1

\* the score of cluster g of the bucket being processed
ScoreOf(g) == calculate_importance_score(groups[g].value, period_start_dt, period_end_dt)

\* the first cluster, in insertion order, whose score no cluster exceeds
FirstMax == CHOOSE g \in DOMAIN groups :
              /\ \A h \in DOMAIN groups : RLeq(ScoreOf(h), ScoreOf(g))
              /\ \A h \in 1..(g - 1) : RLess(ScoreOf(h), ScoreOf(g))

\* C4: when the scoring loop of a bucket is over, the chosen cluster has the
\* maximum score of the bucket's clusters and is the first of those that have it,
\* in cluster insertion order; best_score is its score.
C4_FirstMaxWins ==
  (pc = "score" /\ i > Len(groups)) =>
    /\ best_cluster = groups[FirstMax].value
    /\ best_score = ScoreOf(FirstMax)

\* two clusters tie for the maximum and the earlier one is the chosen one
C4_Witness ==
  /\ pc = "score" /\ i > Len(groups)
  /\ \E g, h \in DOMAIN groups :
       /\ g < h
       /\ ScoreOf(g) = ScoreOf(h)
       /\ \A k \in DOMAIN groups : RLeq(ScoreOf(k), ScoreOf(g))
       /\ best_cluster = groups[g].value
       /\ best_cluster # groups[h].value

\* the bucket keys that occur in the input
InputKeys == {PeriodKey(items[k].published, granularity) : k \in DOMAIN items}

\* C5: the returned list has exactly one KeyEvent per bucket key of the input, and
\* is strictly increasing in periodStart, as strings and as dates.
C5_OnePerBucketSorted ==
  pc = "done" =>
    /\ Len(result) = Cardinality(InputKeys)
    /\ {result[k].periodStart : k \in DOMAIN result} = InputKeys
    /\ \A k \in 1..(Len(result) - 1) :
         /\ StrLess(result[k].periodStart, result[k + 1].periodStart)
         /\ DtLess(strptime_date(result[k].periodStart),
                   strptime_date(result[k + 1].periodStart))

\* an input that is not in chronological order, over three buckets
C5_Witness ==
  /\ pc = "done"
  /\ Len(result) = 3
  /\ DtLess(items[3].published, items[1].published)
  /\ DtLess(items[1].published, items[2].published)

(***************************************************************************)
(* Claims on calculate_importance_score (specification SpecScore)          *)
(***************************************************************************)
\* C3 as stated: adding an article of the same key and bucket to a non-empty
\* cluster never lowers the cluster's importance score.
C3_Monotonic_AsStated ==
  pc = "return_score" => RLeq(ret.before, ret.after)

\* the added article's timestamp is not earlier than the mean timestamp of the
\* cluster: n * (t - start) >= the sum of the cluster's (t_k - start)
AddedIsFresh ==
  Len(arg.cluster) * total_seconds(arg.extra.published, arg.period_start)
    >= SumSeq([k \in DOMAIN arg.cluster |->
                 total_seconds(arg.cluster[k].published, arg.period_start)])

\* C3 amended: adding an article of the same key and bucket whose freshness is
\* not below the cluster's average freshness (its timestamp is not earlier than
\* the mean timestamp of the cluster) never lowers the score; it raises it by at
\* least 0.4 + 0.2 = 0.6.
C3_MonotonicWhenFresh ==
  (pc = "return_score" /\ AddedIsFresh) =>
    RLeq(RAdd(ret.before, Rat(6, 10)), ret.after)

\* a fresh article of an already counted source joins a cluster of two
C3_Witness ==
  /\ pc = "return_score"
  /\ AddedIsFresh
  /\ Len(arg.cluster) = 2
  /\ UniqueSources(Append(arg.cluster, arg.extra)) = UniqueSources(arg.cluster)
  /\ RLess(ret.before, ret.after)

(***************************************************************************)
(* Claims on summarize_cluster (specification SpecCluster)                 *)
(***************************************************************************)
\* C7 as stated: whatever the cluster and the fallback title, the summary has at
\* most 280 characters.
C7_AtMost280_AsStated ==
  pc = "return_cluster" => Len(ret) <= 280

\* some article of the cluster has a description that is neither None nor ""
HasDescription == \E k \in DOMAIN arg.cluster : Truthy(arg.cluster[k].description)

\* C7 amended: when some article of the cluster has a description (not None, not
\* the empty string), the summary has at most 280 characters; with no description
\* the fallback title is returned at its full length, which may exceed 280.
C7_AtMost280WithDescription ==
  (pc = "return_cluster" /\ HasDescription) => Len(ret) <= 280

\* two first sentences that are 293 characters together, cut to 277 and "..."
C7_Witness ==
  /\ pc = "return_cluster"
  /\ Len(arg.cluster) = 2
  /\ \A k \in 1..2 : Truthy(arg.cluster[k].description)
  /\ Len(first_sentence(arg.cluster[1].description))
       + Len(first_sentence(arg.cluster[2].description)) + 1 > 280
  /\ Len(ret) = 280
  /\ SubSeq(ret, 278, 280) = Ellipsis

\* the description is missing, empty or blank
IsBlank(d) == d = NoneVal \/ \A k \in DOMAIN d : d[k] \in Whitespace

\* C8: when every description of the cluster is missing, empty or blank, the
\* summary is the fallback title, exactly as given.
C8_FallbackWhenNoDescription ==
  (pc = "return_cluster" /\ \A k \in DOMAIN arg.cluster : IsBlank(arg.cluster[k].description))
    => ret = arg.fallback_title

\* a cluster whose only description is blank, with a title to fall back to
C8_BlankCase ==
  /\ pc = "return_cluster"
  /\ Len(arg.cluster) = 1
  /\ arg.cluster[1].description = D_Blank
  /\ arg.fallback_title = T_Bakery
  /\ ret = <<>>

\* the descriptions that are neither None nor "", in input order, each trimmed
\* and with its runs of whitespace collapsed to one space
Collected ==
  LET Described(a) == Truthy(a.description)
      with == SelectSeq(arg.cluster, Described)
  IN  [k \in DOMAIN with |-> collapse_ws(strip(with[k].description))]

\* the position in ds of the longest description outside the positions taken,
\* the first in input order among equally long ones
LongestOutside(ds, taken) ==
  CHOOSE k \in DOMAIN ds \ taken :
    \A m \in DOMAIN ds \ taken :
      Len(ds[m]) < Len(ds[k]) \/ (Len(ds[m]) = Len(ds[k]) /\ k <= m)

\* the first sentence of the longest description, then a space and the first
\* sentence of the second-longest one if there is one and it differs
Combination(ds) ==
  LET k1 == LongestOutside(ds, {})
      s1 == first_sentence(ds[k1])
      s2 == IF Len(ds) > 1 THEN first_sentence(ds[LongestOutside(ds, {k1})]) ELSE <<>>
  IN  IF s2 # <<>> /\ s2 # s1 THEN s1 \o <<" ">> \o s2 ELSE s1

\* C23: with at least one non-empty description the summary is the first
\* sentence of the longest description (the first in input order among equally
\* long ones), followed by a space and the first sentence of the second-longest
\* description exactly when there is one and it differs from the first; a
\* combination of more than 280 characters is cut to its first 277 characters,
\* without trailing whitespace, and "..." is appended.
C23_LongestFirstSentences ==
  (pc = "return_cluster" /\ HasDescription) =>
    LET combined == Combination(Collected)
    IN  ret = IF Len(combined) > 280
              THEN rstrip(SubSeq(combined, 1, 277)) \o <<".", ".", ".">>
              ELSE combined

\* two descriptions of equal length once their whitespace is collapsed, with
\* different first sentences: the summary starts with the one given first
C23_Witness ==
  /\ pc = "return_cluster"
  /\ Len(arg.cluster) = 2
  /\ arg.cluster[1].description = D_RatesOther
  /\ arg.cluster[2].description = D_Fed
  /\ Len(Collected[1]) = Len(Collected[2])
  /\ ret = first_sentence(D_RatesOther) \o <<" ">> \o first_sentence(collapse_ws(D_Fed))

(***************************************************************************)
(* Claims on summarize_article (specification SpecArticle)                 *)
(***************************************************************************)
\* C9: with an integer sentence count (no fault) the summary is never longer than
\* the text; a summary longer than the text is the fault fallback, the first 500
\* characters of the text and "...", at most 503 characters.
C9_NeverLongerThanInput ==
  pc = "return_article" =>
    /\ arg.num_sentences.type = "int" => Len(ret) <= Len(arg.text)
    /\ Len(ret) > Len(arg.text) =>
         /\ arg.num_sentences.type # "int"
         /\ ret = SubSeq(arg.text, 1, IF Len(arg.text) < 500 THEN Len(arg.text) ELSE 500)
                    \o <<".", ".", ".">>
         /\ Len(ret) <= 503

\* a text of three sentences, one of them without a word, cut to two
C9_Witness ==
  /\ pc = "return_article"
  /\ arg.num_sentences = PyInt(2)
  /\ Len(split_sentences(arg.text)) = 3
  /\ \E k \in 1..3 : ContentWords(split_sentences(arg.text)[k]) = <<>>
  /\ ret # arg.text
  /\ Len(ret) > 40
  /\ Len(ret) < Len(arg.text)

\* C10: a text of fewer than 50 characters is returned as it is, and so is a text
\* whose number of retained sentences is at most the sentence count asked for.
C10_VerbatimWhenShortOrFew ==
  pc = "return_article" =>
    /\ Len(arg.text) < 50 => ret = arg.text
    /\ (arg.num_sentences.type = "int"
          /\ Len(split_sentences(arg.text)) <= arg.num_sentences.val) => ret = arg.text

\* a text of under 50 characters with more retained sentences than asked for
C10_Witness ==
  /\ pc = "return_article"
  /\ Len(arg.text) < 50
  /\ arg.num_sentences = PyInt(1)
  /\ Len(split_sentences(arg.text)) = 2
  /\ ret = arg.text

\* the retained sentences of the text and those of them that get a score
ArtSentences == split_sentences(arg.text)

ArtScored == score_sentences(ArtSentences)

\* x comes before y in the selection: higher score, or equal score and seen first
Beats(x, y) == RLess(y.score, x.score) \/ (x.score = y.score /\ x.idx < y.idx)

\* the n sentences of scored that fewer than n others come before
TopScored(scored, n) ==
  LET all == Range(scored)
  IN  {x \in all : Cardinality({y \in all : Beats(y, x)}) < n}

\* the sentences of chosen, in text order, joined by single spaces
JoinInTextOrder(scored, chosen) ==
  LET InChosen(x) == x \in chosen
      kept        == SelectSeq(scored, InChosen)
  IN  join(<<" ">>, [k \in DOMAIN kept |-> kept[k].sentence])

MoreThanAsked ==
  /\ pc = "return_article"
  /\ arg.num_sentences.type = "int"
  /\ arg.num_sentences.val >= 1
  /\ Len(ArtSentences) > arg.num_sentences.val

\* C11 as stated: with more than N retained sentences the result is N retained
\* sentences joined by single spaces in text order.
C11_ExactlyN_AsStated ==
  MoreThanAsked =>
    \E K \in SUBSET DOMAIN ArtSentences :
      /\ Cardinality(K) = arg.num_sentences.val
      /\ LET InK(k) == k \in K
             ks     == SelectSeq([k \in DOMAIN ArtSentences |-> k], InK)
         IN  ret = join(<<" ">>, [j \in DOMAIN ks |-> ArtSentences[ks[j]]])

\* C11: for a text of at least 50 characters after trimming with more than N >= 1
\* retained sentences, the result is the min(N, number of scored sentences)
\* sentences with the highest score, ties in favour of the sentence seen first,
\* joined by single spaces in text order; sentences without a content word are
\* never part of it.
C11_TopScoredInTextOrder ==
  (MoreThanAsked /\ Len(strip(arg.text)) >= 50) =>
    LET scored == ArtScored
        top    == TopScored(scored, arg.num_sentences.val)
    IN  /\ ret = JoinInTextOrder(scored, top)
        /\ Cardinality(top)
             = IF Len(scored) < arg.num_sentences.val THEN Len(scored)
               ELSE arg.num_sentences.val

\* two different sentences with the same score, the first selected and the second not
C11_Witness ==
  /\ MoreThanAsked
  /\ Len(strip(arg.text)) >= 50
  /\ LET scored == ArtScored
         top    == TopScored(scored, arg.num_sentences.val)
     IN  \E x, y \in Range(scored) :
           /\ x.score = y.score
           /\ x.sentence # y.sentence
           /\ x.idx < y.idx
           /\ x \in top
           /\ y \notin top
           /\ ret = JoinInTextOrder(scored, top)
           /\ ~IsSubstring(y.sentence, ret)

(***************************************************************************)
(* Claims on empty input (specification SpecTimelineThenStats)             *)
(***************************************************************************)
\* C12: on an empty article list key_events_by_period returns the empty sequence,
\* and get_coverage_stats returns total_articles = 0, unique_sources = 0,
\* date_span_days = 0 and avg_articles_per_day = 0.
C12_EmptyInput ==
  /\ (pc \in {"done", "return_stats"} /\ items = <<>>) => result = <<>>
  /\ (pc = "return_stats" /\ arg.articles = <<>>) =>
       /\ ret.total_articles = 0
       /\ ret.unique_sources = 0
       /\ ret.date_span_days = 0
       /\ ret.avg_articles_per_day = Rat(0, 1)

\* both operations have returned on the empty list
C12_Witness ==
  /\ pc = "return_stats"
  /\ items = <<>>
  /\ arg.articles = <<>>
  /\ result = <<>>
  /\ ret.total_articles = 0
  /\ ret.date_span_days = 0

(***************************************************************************)
(* Claims on faults (specification SpecWithFaults)                         *)
(***************************************************************************)
\* the buckets whose articles all have a string or no description
SoundBuckets ==
  {k \in DOMAIN buckets : ~SummarizeRaises(buckets[k].value)}

\* C13: a fault while one bucket is processed never ends key_events_by_period:
\* the call does not end with an exception, and at its return the result holds
\* the KeyEvent of every bucket whose processing raised nothing.
C13_FaultIsolation ==
  /\ pc # "raised"
  /\ pc = "done" =>
       \A k \in SoundBuckets : \E j \in DOMAIN result : result[j].periodStart = buckets[k].key

\* the call has ended with an exception while a KeyEvent was already computed and
\* another bucket holds no malformed article
C13_Witness ==
  /\ pc = "raised"
  /\ result # <<>>
  /\ \E k \in SoundBuckets : \A j \in DOMAIN result : result[j].periodStart # buckets[k].key

(***************************************************************************)
(* Claims on the grouping key (specification SpecKey)                      *)
(***************************************************************************)
\* the key the claim describes for a title and a link
DescribedKey(title, link) ==
  IF title # NoneVal /\ normalize_title(title) # <<>> THEN normalize_title(title)
  ELSE IF title # NoneVal /\ title # <<>> THEN title
  ELSE IF link # NoneVal /\ link # <<>> THEN link
  ELSE <<"u", "n", "k", "n", "o", "w", "n">>

\* C14: every article gets a non-empty grouping key: the normalized title when
\* that is non-empty, otherwise the raw title when non-empty, otherwise the link
\* when non-empty, otherwise "unknown", whatever of title and link is missing or
\* empty.
C14_NonEmptyKey ==
  pc = "return_keys" =>
    \A k \in DOMAIN arg.arr :
      /\ ret[k] # <<>>
      /\ ret[k] # NoneVal
      /\ ret[k] = DescribedKey(arg.arr[k].title, arg.arr[k].link)

\* one article falls back to its raw title, the other to its link
C14_Witness ==
  /\ pc = "return_keys"
  /\ Len(arg.arr) = 2
  /\ arg.arr[1].title = T_The
  /\ ret[1] = T_The
  /\ arg.arr[2].title = <<>>
  /\ arg.arr[2].link = <<"u", "1">>
  /\ ret[2] = <<"u", "1">>

(***************************************************************************)
(* Claims on get_coverage_stats (specification SpecCoverage)               *)
(***************************************************************************)
\* a timestamp in minutes
Minutes(d) == toordinal(d) * 1440 + d.hour * 60 + d.minute

AllStamped ==
  /\ pc = "return_stats"
  /\ arg.articles # <<>>
  /\ \A k \in DOMAIN arg.articles : arg.articles[k].date_key = "datetime"

\* the whole days between the earliest and the latest timestamp, plus 1
WholeDaysPlusOne ==
  LET stamps == {Minutes(arg.articles[k].published_date) : k \in DOMAIN arg.articles}
      latest   == CHOOSE x \in stamps : \A y \in stamps : y <= x
      earliest == CHOOSE x \in stamps : \A y \in stamps : x <= y
  IN  (latest - earliest) \div 1440 + 1

\* C15 as stated: with a timestamp on every article, total_articles is the number
\* of articles, date_span_days the whole-day difference of latest and earliest
\* timestamp plus 1, and avg_articles_per_day is total_articles / date_span_days.
C15_Stats_AsStated ==
  AllStamped =>
    /\ ret.total_articles = Len(arg.articles)
    /\ ret.date_span_days = WholeDaysPlusOne
    /\ ret.date_span_days >= 1
    /\ ret.avg_articles_per_day = Rat(ret.total_articles, ret.date_span_days)

\* C15: with a timestamp on every article, total_articles is the number of
\* articles, date_span_days the whole-day difference of latest and earliest
\* timestamp plus 1 (at least 1), and avg_articles_per_day is
\* total_articles / date_span_days rounded to one decimal: a number of tenths
\* at most 0.05 away from the quotient.
C15_StatsRoundedAverage ==
  AllStamped =>
    /\ ret.total_articles = Len(arg.articles)
    /\ ret.date_span_days = WholeDaysPlusOne
    /\ ret.date_span_days >= 1
    /\ 10 % ret.avg_articles_per_day.d = 0
    /\ LET q    == Rat(ret.total_articles, ret.date_span_days)
           diff == RAdd(ret.avg_articles_per_day, Rat(-q.n, q.d))
       IN  RLeq(Rat(Abs(diff.n), diff.d), Rat(1, 20))

\* two articles a minute less than three days apart: a span of 3 days, 0.7 a day
C15_Witness ==
  /\ AllStamped
  /\ Len(arg.articles) = 2
  /\ ret.date_span_days = 3
  /\ ret.avg_articles_per_day = Rat(7, 10)

(***************************************************************************)
(* Claims on shared state (specification SpecParallel)                     *)
(***************************************************************************)
\* every article held in a bucket, a group or the winning cluster is the input
\* article of the same identity, field for field
AliasesIntact ==
  LET Same(arts) == \A k \in DOMAIN arts : arts[k] = items[arts[k].id]
  IN  /\ \A k \in DOMAIN buckets : Same(buckets[k].value)
      /\ \A k \in DOMAIN groups : Same(groups[k].value)
      /\ Same(best_cluster)

DaysSince2018(d) ==
  LET YearDays(y) == IF y % 4 = 0 THEN 366 ELSE 365
      MonthDays(y, m) ==
        IF m = 2 THEN (IF y % 4 = 0 THEN 29 ELSE 28)
        ELSE IF m \in {4, 6, 9, 11} THEN 30 ELSE 31
      years  == [y \in 1..(d.year - 2018) |-> YearDays(2017 + y)]
      months == [m \in 1..(d.month - 1) |-> MonthDays(d.year, m)]
  IN  SumSeq(years) + SumSeq(months) + d.day - 1

\* C17: week_start(d) is a Monday at 00:00, not later than d and less than 7 days
\* before d.
C17_MondayOfTheWeek ==
  pc = "return_week" =>
    LET from == DaysSince2018(ret) * 1440 + ret.hour * 60 + ret.minute
        to   == DaysSince2018(arg.d) * 1440 + arg.d.hour * 60 + arg.d.minute
    IN  /\ DaysSince2018(ret) % 7 = 0
        /\ ret.hour = 0
        /\ ret.minute = 0
        /\ from <= to
        /\ to - from < 7 * 1440

\* Wednesday 2025-01-01 23:59 goes to Monday 2024-12-30, in the year before
C17_Witness ==
  /\ pc = "return_week"
  /\ arg.d = dt(2025, 1, 1, 23, 59)
  /\ ret = dt(2024, 12, 30, 0, 0)

(***************************************************************************)
(* Claims on the bucket end (specification Spec)                           *)
(***************************************************************************)
\* C18: the bucket end used for scoring is the start plus 1 day for daily, the
\* start plus 7 days for weekly, and for monthly the first day of the following
\* month, which for a December bucket is 1 January of the next year.
C18_BucketEnd ==
  pc = "score" =>
    /\ period_start_dt = strptime_date(buckets[b].key)
    /\ period_end_dt.hour = 0
    /\ period_end_dt.minute = 0
    /\ granularity = "daily" =>
         DaysSince2018(period_end_dt) = DaysSince2018(period_start_dt) + 1
    /\ granularity = "weekly" =>
         DaysSince2018(period_end_dt) = DaysSince2018(period_start_dt) + 7
    /\ granularity = "monthly" =>
         /\ period_end_dt.day = 1
         /\ period_start_dt.month = 12 =>
              (period_end_dt.year = period_start_dt.year + 1 /\ period_end_dt.month = 1)
         /\ period_start_dt.month # 12 =>
              (period_end_dt.year = period_start_dt.year
                 /\ period_end_dt.month = period_start_dt.month + 1)

\* the bucket of December 2024 ends on 1 January 2025
C18_Witness ==
  /\ pc = "score"
  /\ granularity = "monthly"
  /\ period_start_dt = dt(2024, 12, 1, 0, 0)
  /\ period_end_dt = dt(2025, 1, 1, 0, 0)

(***************************************************************************)
(* Claims on sentence splitting (specification SpecArticle)                *)
(***************************************************************************)
\* the trimmed segments of the text of at least n characters
SegmentsFrom(n) ==
  LET segs      == split_runs(arg.text)
      AtLeast(x) == Len(x) >= n
  IN  SelectSeq([k \in DOMAIN segs |-> strip(segs[k])], AtLeast)

\* what summarize_article returns for a text of 50 characters or more and an
\* integer count N when the sentences are the segments long: the text itself if
\* they are at most N, otherwise some of them joined by single spaces
SummaryOver(long) ==
  (pc = "return_article" /\ arg.num_sentences.type = "int" /\ Len(strip(arg.text)) >= 50) =>
    /\ Len(long) <= arg.num_sentences.val => ret = arg.text
    /\ Len(long) > arg.num_sentences.val =>
         /\ ret # arg.text
         /\ \E K \in SUBSET DOMAIN long :
              LET InK(k) == k \in K
                  ks     == SelectSeq([k \in DOMAIN long |-> k], InK)
              IN  ret = join(<<" ">>, [j \in DOMAIN ks |-> long[ks[j]]])

\* C19 as stated: the sentences of summarize_article are the trimmed segments of
\* 20 characters or more; those of 19 or fewer are dropped.
C19_Keeps20OrMore_AsStated == SummaryOver(SegmentsFrom(20))

\* C19: the sentences of summarize_article are the trimmed segments of 21
\* characters or more; those of 20 or fewer are dropped.
C19_Keeps21OrMore == SummaryOver(SegmentsFrom(21))

\* a text with a segment of exactly 20 characters that is returned as it is
\* because that segment does not count as a sentence
C19_Witness ==
  /\ pc = "return_article"
  /\ arg.num_sentences.type = "int"
  /\ Len(strip(arg.text)) >= 50
  /\ Len(SegmentsFrom(21)) = arg.num_sentences.val
  /\ Len(SegmentsFrom(20)) > arg.num_sentences.val
  /\ \E k \in DOMAIN SegmentsFrom(21) : Len(SegmentsFrom(21)[k]) = 21
  /\ ret = arg.text

(***************************************************************************)
(* Claims on the order of clusters (specification Spec)                    *)
(***************************************************************************)
\* the position in the current bucket of the first article with the key
FirstSeen(key) ==
  CHOOSE k \in DOMAIN buckets[b].value :
    /\ GroupKey(buckets[b].value[k]) = key
    /\ \A m \in 1..(k - 1) : GroupKey(buckets[b].value[m]) # key

\* C20: once a bucket is grouped, its clusters are in the order in which their
\* keys first occur in the bucket, the articles of a cluster are in their input
\* order, and there are as many clusters as distinct keys in the bucket.
C20_FirstSeenOrder ==
  pc = "score" =>
    /\ \A g, h \in DOMAIN groups :
         g < h => FirstSeen(groups[g].key) < FirstSeen(groups[h].key)
    /\ \A g \in DOMAIN groups : \A m, n \in DOMAIN groups[g].value :
         m < n => groups[g].value[m].id < groups[g].value[n].id
    /\ \A m, n \in DOMAIN buckets[b].value :
         m < n => buckets[b].value[m].id < buckets[b].value[n].id
    /\ Len(groups) = Cardinality({GroupKey(buckets[b].value[k]) : k \in DOMAIN buckets[b].value})

\* a cluster of the first and the third article of the bucket, ahead of the
\* cluster of the second
C20_Witness ==
  /\ pc = "score"
  /\ Len(buckets[b].value) = 3
  /\ Len(groups) = 2
  /\ Len(groups[1].value) = 2
  /\ groups[1].value[1] = buckets[b].value[1]
  /\ groups[1].value[2] = buckets[b].value[3]
  /\ groups[2].value[1] = buckets[b].value[2]

(***************************************************************************)
(* Claims on get_source_authority_weight (specification SpecAuthority)     *)
(***************************************************************************)
\* the entries of the table whose key occurs in the lowercased source name
Matching(source) ==
  {k \in DOMAIN SOURCE_AUTHORITY :
     IsSubstring(SOURCE_AUTHORITY[k].key, str_lower(source))}

\* the source name holds the name of an outlet of the tier with weight w
HoldsTier(source, w) ==
  \E k \in Matching(source) : SOURCE_AUTHORITY[k].weight = w

\* C21: the weight returned is that of the first entry of SOURCE_AUTHORITY, in
\* table order, whose key is a substring of the lowercased source name, and 1.0
\* for a source that is None, empty or matches no entry; it is 1.0, 1.5 or 2.0,
\* and 2.0 for a name that holds both a premium and a mid-tier outlet name.
C21_FirstMatchingEntry ==
  pc = "return_weight" =>
    LET source == arg.source
        none == source = NoneVal \/ source = <<>> \/ Matching(source) = {}
    IN  /\ none => ret.weight = 10
        /\ ~none =>
             \E k \in Matching(source) :
               /\ \A m \in Matching(source) : k <= m
               /\ ret.weight = SOURCE_AUTHORITY[k].weight
        /\ ret.weight \in {10, 15, 20}
        /\ (~none /\ HoldsTier(source, 20) /\ HoldsTier(source, 15)) => ret.weight = 20

\* a name that starts with a major network and goes on with a premium outlet
\* got 2.0
C21_Witness ==
  /\ pc = "return_weight"
  /\ arg.source = N_CNN \o <<" ">> \o S_Reuters
  /\ ret.weight = 20

(***************************************************************************)
(* Claims on freshness (specification SpecFreshness)                       *)
(***************************************************************************)
\* the score without its freshness term: 0.4 per article, 0.25 per distinct
\* source, 0.2 per unit of authority
ScoreBase(cluster) ==
  RAdd(RAdd(Rat(Len(cluster) * 4, 10), Rat(UniqueSources(cluster) * 25, 100)),
       Rat(AuthorityScore(cluster) * 2, 100))

\* the sum over the cluster of published - periodStart, in seconds
SecondsIntoPeriod(cluster) ==
  SumSeq([k \in DOMAIN cluster |->
            total_seconds(cluster[k].published, arg.period_start)])

\* the score is the base plus 15 * 0.15 times the mean of the unclamped
\* quotients (published - periodStart) / (periodEnd - periodStart); an article
\* before the period start brings a negative term, one at or after the period
\* end a term of at least 15 * 0.15; when the period ends as it starts the mean
\* counts as 0.5
UnclampedScore(cluster, score) ==
  LET duration == total_seconds(arg.period_end, arg.period_start)
      n == Len(cluster)
  IN  /\ (duration > 0 /\ n > 0) =>
           score = RAdd(ScoreBase(cluster),
                        RMul(Rat(SecondsIntoPeriod(cluster), n * duration), Rat(225, 100)))
      /\ (duration > 0 /\ n = 1 /\ DtLess(cluster[1].published, arg.period_start)) =>
           RLess(score, ScoreBase(cluster))
      /\ (duration > 0 /\ n = 1 /\ ~DtLess(cluster[1].published, arg.period_end)) =>
           RLeq(RAdd(ScoreBase(cluster), Rat(225, 100)), score)
      /\ duration = 0 =>
           score = RAdd(ScoreBase(cluster), RMul(Rat(1, 2), Rat(225, 100)))

InsidePeriod(art) ==
  /\ ~DtLess(art.published, period_start_dt)
  /\ DtLess(art.published, period_end_dt)

\* C24: every article of a bucket lies in the bucket's period, periodStart <=
\* published < periodEnd, for the three granularities; so every cluster's
\* average freshness is in [0, 1) and its score is positive, the first cluster
\* scored beats the initial best score of -1, and no bucket is skipped: there
\* is one KeyEvent per bucket.
C24_ArticlesInsidePeriod ==
  /\ pc = "score" =>
       /\ \A k \in DOMAIN buckets[b].value : InsidePeriod(buckets[b].value[k])
       /\ \A g \in DOMAIN groups :
            LET score == calculate_importance_score(groups[g].value, period_start_dt,
                                                    period_end_dt)
            IN  /\ RLeq(ScoreBase(groups[g].value), score)
                /\ RLess(score, RAdd(ScoreBase(groups[g].value), Rat(225, 100)))
                /\ RLess(Rat(0, 1), score)
       /\ i > 1 => (best_cluster # <<>> /\ RLess(Rat(0, 1), best_score))
       /\ Len(groups) >= 1
       /\ Len(result) = b - 1
  /\ pc \in {"sort", "done"} => Len(result) = Len(buckets)

\* a weekly bucket holds an article of the first minute of its week and one of
\* the last minute; the article of the first minute, alone in its cluster, has
\* a freshness of 0 and scores its base
C24_Witness ==
  /\ pc = "score"
  /\ granularity = "weekly"
  /\ i > Len(groups)
  /\ \E k \in DOMAIN buckets[b].value : buckets[b].value[k].published = period_start_dt
  /\ \E k \in DOMAIN buckets[b].value :
       buckets[b].value[k].published = dt(2025, 1, 5, 23, 59)
  /\ \E g \in DOMAIN groups :
       /\ Len(groups[g].value) = 1
       /\ calculate_importance_score(groups[g].value, period_start_dt, period_end_dt)
            = ScoreBase(groups[g].value)
  /\ best_cluster # <<>>

(***************************************************************************)
(* Claims on the fields of a KeyEvent (specification SpecEdges)            *)
(***************************************************************************)
\* the time of d in minutes since 0001-01-01 00:00
MinuteStamp(d) == (toordinal(d) - 1) * 1440 + d.hour * 60 + d.minute

\* the distinct sources of a cluster, a missing or empty one counting as
\* "unknown", without regard to case
SourcesOf(cluster) ==
  {str_lower(IF cluster[k].source = NoneVal \/ cluster[k].source = <<>>
             THEN Unknown ELSE cluster[k].source) : k \in DOMAIN cluster}

\* C25: the KeyEvent of a bucket agrees with the bucket's winning cluster:
\* clusterSize is the number of its articles, uniqueSources is between 1 and
\* clusterSize, avgAuthority is between 1.0 and 2.0, and title, link and
\* published are those of its earliest article, the first seen among the
\* articles of the earliest timestamp.
C25_EventMatchesWinner ==
  (pc \in {"group", "sort"} /\ result # <<>>) =>
    LET ev == result[Len(result)]
        c  == best_cluster
    IN  /\ c # <<>>
        /\ ev.clusterSize = Len(c)
        /\ ev.uniqueSources = Cardinality(SourcesOf(c))
        /\ 1 <= ev.uniqueSources
        /\ ev.uniqueSources <= ev.clusterSize
        /\ RLeq(Rat(1, 1), ev.avgAuthority)
        /\ RLeq(ev.avgAuthority, Rat(2, 1))
        /\ \E k \in DOMAIN c :
             /\ \A m \in DOMAIN c : MinuteStamp(c[k].published) <= MinuteStamp(c[m].published)
             /\ \A m \in 1..(k - 1) : MinuteStamp(c[k].published) < MinuteStamp(c[m].published)
             /\ ev.title = c[k].title
             /\ ev.link = c[k].link
             /\ ev.published = strftime_minute(c[k].published)

\* the winning cluster is two articles of one timestamp with different links,
\* one of them without a source: the event shows the one seen first
C25_Witness ==
  /\ pc = "sort"
  /\ Len(best_cluster) = 2
  /\ best_cluster[1].published = best_cluster[2].published
  /\ best_cluster[1].link # best_cluster[2].link
  /\ best_cluster[1].source = NoneVal
  /\ result # <<>>
  /\ result[Len(result)].link = best_cluster[1].link
  /\ result[Len(result)].clusterSize = 2
  /\ result[Len(result)].uniqueSources = 2

(***************************************************************************)
(* Claims on concurrent /search requests (specification SpecSearch)        *)
(***************************************************************************)
\* C26: whatever the interleaving of the requests, a request that has been
\* answered got at most its own max_articles articles, and as many as it would
\* have got alone: none when its fetches failed, else the first max_articles
\* of the feed.
C26_OwnLimit ==
  \A r \in Requests :
    pc[r] = "responded" =>
      /\ Len(search_articles[r]) <= arg[r].max_articles
      /\ search_articles[r] \in {<<>>, Prefix(Feed, arg[r].max_articles)}

\* a request that asked for one article was answered with three, the limit
\* another request wrote into the shared crawler
C26_Witness ==
  \E r, q \in Requests :
    /\ r # q
    /\ pc[r] = "responded"
    /\ arg[r].max_articles = 1
    /\ arg[q].max_articles = 3
    /\ crawler.max_results = 3
    /\ Len(search_articles[r]) = 3

====
